---------------------------- MODULE Spec2Model ----------------------------
(***************************************************************************)
(* A model of stray's StatusNotifierWatcher engine                         *)
(* (stray/src/notifier_watcher, stray/src/dbus/notifier_watcher_service,   *)
(* stray/src/notifier_host): the watcher service and its registry, the     *)
(* peer-death watcher, the notifier tracker with its per-item tasks, the   *)
(* broadcast channel the hosts read, the start-up of the engine and the    *)
(* dispatcher of the UI's commands.                                        *)
(*                                                                         *)
(* Strings that the code inspects (bus names, object paths, registration   *)
(* strings) are sequences of one-character strings, so that contains,      *)
(* split_once and format! are computed as the code computes them.          *)
(***************************************************************************)
EXTENDS Integers, Sequences, FiniteSets, TLC

---------------------------------------------------------------------------
(* Bounds of the model *)

\* NameOwnerChanged signals that may wait on the peer-death watcher's stream
MaxChanged == 2
\* messages that may be sent on the broadcast channel in one run
MaxMessages == 2
\* what the items may do in one run: registrations at the watcher and
\* signals of an item or of its menu
MaxEvents == 2
\* how many messages are broadcast where hosts are followed
MaxSent == 9
\* how many commands the UI sends in one run
MaxCommands == 2
\* how long the strings are that the conversions are given
MaxLen == 4
\* how many levels a menu layout has, and how many entries at its top
MaxDepth == 2
MaxChildren == 2

---------------------------------------------------------------------------
(* Strings *)

Empty == << >>

\* unique bus names; ":1.9" is a proper prefix of ":1.99"
U9  == <<":", "1", ".", "9">>
U99 == <<":", "1", ".", "9", "9">>
UniqueNames == {U9, U99}

\* object paths that items register as their service string
PathA == <<"/", "a">>
PathB == <<"/", "b">>
Paths == {PathA, PathB}

\* the well-known name an item's connection may own besides its unique name
WellKnown(u) == <<"o", "r", "g", ".", "x", "-">> \o Tail(u)

\* str::starts_with
StartsWith(s, p) ==
  /\ Len(p) <= Len(s)
  /\ SubSeq(s, 1, Len(p)) = p

\* str::contains with a string pattern
Contains(s, p) ==
  \E i \in 0..(Len(s) - Len(p)) : SubSeq(s, i + 1, i + Len(p)) = p

\* the registration string with the service in front
service_first(address, service) == service \o address

\* format!("{}{}", address, service)
Composite(address, service) == address \o service

\* the position of the first c in s, 0 when s holds none
IndexOf(s, c) ==
  IF \E i \in 1..Len(s) : s[i] = c
  THEN CHOOSE i \in 1..Len(s) : s[i] = c /\ \A j \in 1..(i - 1) : s[j] # c
  ELSE 0

\* the connection that registered a registry entry (the model's services are
\* object paths, and a unique name holds no '/')
SenderOf(e) == CHOOSE u \in UniqueNames : \E s \in Paths : e = Composite(u, s)

---------------------------------------------------------------------------
(* The address parser, notifier_watcher/notifier_address.rs *)

\* "/StatusNotifierItem"
DefaultPath ==
  <<"/", "S", "t", "a", "t", "u", "s", "N", "o", "t", "i", "f", "i", "e", "r",
    "I", "t", "e", "m">>

\* the parser without the slash it puts in front of the path
from_notifier_service_bare_path(service) ==
  LET slash == IndexOf(service, "/")
  IN IF slash # 0
     THEN [ok |-> TRUE,
           destination |-> SubSeq(service, 1, slash - 1),
           path |-> SubSeq(service, slash + 1, Len(service))]
     ELSE IF IndexOf(service, ":") # 0
     THEN [ok |-> TRUE, destination |-> service, path |-> DefaultPath]
     ELSE [ok |-> FALSE, destination |-> Empty, path |-> Empty]

\* the parser splitting at the last slash, not at the first
from_notifier_service_last_slash(service) ==
  LET slashes == {i \in 1..Len(service) : service[i] = "/"}
      slash == IF slashes = {} THEN 0
               ELSE CHOOSE i \in slashes : \A j \in slashes : j <= i
  IN IF slash # 0
     THEN [ok |-> TRUE,
           destination |-> SubSeq(service, 1, slash - 1),
           path |-> <<"/">> \o SubSeq(service, slash + 1, Len(service))]
     ELSE IF IndexOf(service, ":") # 0
     THEN [ok |-> TRUE, destination |-> service, path |-> DefaultPath]
     ELSE [ok |-> FALSE, destination |-> Empty, path |-> Empty]

\* NotifierAddress::from_notifier_service
from_notifier_service(service) ==
  LET slash == IndexOf(service, "/")
      colon == IndexOf(service, ":")
  IN IF slash # 0
     THEN [ok |-> TRUE,
           destination |-> SubSeq(service, 1, slash - 1),
           path |-> <<"/">> \o SubSeq(service, slash + 1, Len(service))]
     ELSE IF colon # 0
     THEN \* split(':')[1]: what stands between the first ':' and the next
          LET rest == SubSeq(service, colon + 1, Len(service))
              next == IndexOf(rest, ":")
              part == IF next = 0 THEN rest ELSE SubSeq(rest, 1, next - 1)
          IN [ok |-> TRUE, destination |-> <<":">> \o part, path |-> DefaultPath]
     ELSE [ok |-> FALSE, destination |-> Empty, path |-> Empty]

---------------------------------------------------------------------------
(* The data model, message/tray.rs and message/mod.rs *)

Categories == {"ApplicationStatus", "Communications", "SystemServices", "Hardware"}

\* impl FromStr for Status
StatusFromStr(s) ==
  IF s = "Passive" THEN [ok |-> TRUE, status |-> "Active"]
  ELSE IF s = "Active" THEN [ok |-> TRUE, status |-> "Passive"]
  ELSE [ok |-> FALSE, status |-> "none"]

\* impl FromStr for Category
CategoryFromStr(s) ==
  IF s \in Categories THEN [ok |-> TRUE, category |-> s]
  ELSE [ok |-> FALSE, category |-> "none"]

\* the values of a property bag: a string, a value of another type, or none
Absent == [type |-> "absent", value |-> ""]
Str(s) == [type |-> "s", value |-> s]
NotStr == [type |-> "i", value |-> ""]

\* Option<String>
None == [some |-> FALSE, value |-> ""]
Some(s) == [some |-> TRUE, value |-> s]

\* PropsWrapper::get_string
get_string(props, key) ==
  IF props[key].type = "s" THEN Some(props[key].value) ELSE None

\* the property bags GetAll("org.kde.StatusNotifierItem") returns in the model:
\* whether Id is there, the Category and Status strings, the IconPixmap
\* ("absent", "valid", or "malformed": an array whose entries are no
\* (i32, i32, bytes) structures), and whether Menu holds an object path
Bag(id, pixmap, menu) ==
  [Id |-> id, Category |-> "ApplicationStatus", Status |-> "Active",
   IconPixmap |-> pixmap, Menu |-> menu, IconThemePath |-> Absent]
BagPlain     == Bag(TRUE, "absent", FALSE)
BagMenu      == Bag(TRUE, "valid", TRUE)
BagNoId      == Bag(FALSE, "absent", FALSE)
BagBadPixmap == Bag(TRUE, "malformed", FALSE)
Bags == {BagPlain, BagMenu, BagNoId, BagBadPixmap}

NoItem ==
  [id |-> FALSE, category |-> "none", status |-> "none", menu |-> FALSE,
   icon_theme_path |-> None]

\* TryFrom<DBusProperties> for StatusNotifierItem: the fields are built in the
\* order the struct literal lists them; IconPixmap::from_array unwraps
TryFromProps(props) ==
  IF ~props.Id THEN [tag |-> "Err", item |-> NoItem]
  ELSE IF ~CategoryFromStr(props.Category).ok THEN [tag |-> "Err", item |-> NoItem]
  ELSE IF ~StatusFromStr(props.Status).ok THEN [tag |-> "Err", item |-> NoItem]
  ELSE IF props.IconPixmap = "malformed" THEN [tag |-> "Panic", item |-> NoItem]
  ELSE [tag |-> "Ok",
        item |-> [id |-> TRUE,
                  category |-> CategoryFromStr(props.Category).category,
                  status |-> StatusFromStr(props.Status).status,
                  menu |-> props.Menu,
                  icon_theme_path |-> get_string(props, "IconThemePath")]]

\* what a GetLayout call yields: a D-Bus error ("failed"), a layout that
\* decodes ("good"), one whose decoding returns an error ("undecodable"), one
\* whose child is no structure, on which MenuItem::try_from panics ("nolayout")
LayoutResults == {"failed", "good", "undecodable", "nolayout"}

\* TrayMenu::try_from(menu).ok() on a layout that does not panic
MenuOf(layout) == IF layout = "good" THEN "Some" ELSE "None"

\* NotifierItemMessage
RemoveMsg(address) ==
  [type |-> "Remove", address |-> address, item |-> NoItem, menu |-> "None"]
UpdateMsg(address, item, menu) ==
  [type |-> "Update", address |-> address, item |-> item, menu |-> menu]

\* the unique_id strings hosts are created with
HostIds == {<<"1">>, <<"2">>}

\* std::process::id(), formatted
Pid == <<"7">>

\* create_notifier_host: format!("org.freedesktop.StatusNotifierHost-{pid}-{id}")
wellknown_name(unique_id) ==
  <<"o", "r", "g", ".", "f", "r", "e", "e", "d", "e", "s", "k", "t", "o", "p",
    ".", "S", "t", "a", "t", "u", "s", "N", "o", "t", "i", "f", "i", "e", "r",
    "H", "o", "s", "t", "-">> \o Pid \o <<"-">> \o unique_id

\* the unique name the bus gives to the connection of a host
HostConnection(unique_id) == <<":", "2", ".">> \o unique_id

\* broadcast::channel(5)
Capacity == 5

\* the slots of the channel: tokio rounds the capacity up to a power of two
RECURSIVE NextPowerOfTwo(_, _)
NextPowerOfTwo(p, n) == IF p >= n THEN p ELSE NextPowerOfTwo(2 * p, n)
Buffer == NextPowerOfTwo(1, Capacity)

\* the unique name the bus gives to a connection whose build fails
AttemptConnection(unique_id) == <<":", "3", ".">> \o unique_id

\* a host that was not created, or was destroyed: there is no receiver
NoReceiver ==
  [state |-> "none", start |-> 0, next |-> 0, received |-> << >>,
   lagged |-> FALSE, resume |-> 0, closed |-> FALSE]

\* self.tx.subscribe(): the receiver sees what is sent from now on
Subscribe(sent) ==
  [state |-> "alive",
   start |-> sent,        \* history: how many messages were sent before
   next |-> sent,         \* the position of the next message to read
   received |-> << >>,    \* history: what recv returned
   lagged |-> FALSE,      \* history: recv returned a lag error
   resume |-> sent,       \* history: where the receiver stood after the last lag error
   closed |-> FALSE]      \* history: recv returned the error of a closed channel

---------------------------------------------------------------------------
(* The menu of an item, message/menu.rs.  A value of the layout is a    *)
(* record of its type and its content; a structure's content is the       *)
(* sequence of its fields, a dict's a function of its keys.                *)

Bool(b) == [type |-> "b", value |-> b]
I32(n) == [type |-> "i", value |-> n]
Dict(entries) == [type |-> "a{sv}", value |-> entries]
Array(values) == [type |-> "av", value |-> values]
Structure(fields) == [type |-> "r", value |-> fields]

\* the keys of an entry's dict that the code reads
DictKeys ==
  {"children_display", "label", "enabled", "visible", "icon-name",
   "disposition", "toggle-state", "toggle-type", "type"}

\* MenuItem::default()
MenuItemDefault ==
  [id |-> 0, children_display |-> None, label |-> << >>, enabled |-> TRUE,
   visible |-> TRUE, icon_name |-> None, toggle_state |-> "Indeterminate",
   toggle_type |-> "CannotBeToggled", menu_type |-> "Standard",
   disposition |-> "Normal", submenu |-> << >>]

\* MenuType::from_str, ToggleType::from_str, Disposition::from_str: the
\* variant of the name, if the name is one
MenuTypeFromStr(s) ==
  IF s = "standard" THEN Some("Standard")
  ELSE IF s = "separator" THEN Some("Separator")
  ELSE None

ToggleTypeFromStr(s) ==
  IF s = "checkmark" THEN Some("Checkmark")
  ELSE IF s = "radio" THEN Some("Radio")
  ELSE None

DispositionFromStr(s) ==
  IF s = "normal" THEN Some("Normal")
  ELSE IF s = "informative" THEN Some("Informative")
  ELSE IF s = "warning" THEN Some("Warning")
  ELSE IF s = "alert" THEN Some("Alert")
  ELSE None

\* ToggleState::from(value)
ToggleStateFrom(value) == IF value THEN "On" ELSE "Indeterminate"

\* dict.get::<str, V>(key): Ok(None) without the key, Ok(Some) of a value
\* of the type V, Err(IncorrectType) of a value of another type
dict_get(dict, key, type) ==
  IF dict[key].type = "absent" THEN [ok |-> TRUE, some |-> FALSE, value |-> Absent]
  ELSE IF dict[key].type = type THEN [ok |-> TRUE, some |-> TRUE, value |-> dict[key]]
  ELSE [ok |-> FALSE, some |-> FALSE, value |-> Absent]

\* dict.get(key).ok().flatten()
dict_get_ok(dict, key, type) ==
  IF dict_get(dict, key, type).some THEN Some(dict[key].value) ELSE None

\* label.replace('_', "") with only the first underscore taken out
replace_first(label) ==
  LET marks == {i \in 1..Len(label) : label[i] = "_"}
  IN IF marks = {} THEN label
     ELSE LET first == CHOOSE i \in marks : \A j \in marks : i <= j
          IN SubSeq(label, 1, first - 1) \o SubSeq(label, first + 1, Len(label))

\* label.replace('_', "")
replace(label) == SelectSeq(label, LAMBDA c : c # "_")

\* fields.next(): the next field of the structure, if there is one
Field(fields, i) == IF i <= Len(fields) THEN fields[i] ELSE Absent

\* the fields of the menu item that come from the dict, or the error of
\* the first get that is followed by a question mark
FromDict(menu, dict) ==
  LET children_display == dict_get(dict, "children_display", "s")
      label == dict_get(dict, "label", "s")
      enabled == dict_get(dict, "enabled", "b")
      visible == dict_get(dict, "visible", "b")
      icon_name == dict_get(dict, "icon-name", "s")
      disposition == dict_get_ok(dict, "disposition", "s")
      toggle_state == dict_get_ok(dict, "toggle-state", "b")
      toggle_type == dict_get_ok(dict, "toggle-type", "s")
      menu_type == dict_get_ok(dict, "type", "s")
  IN IF \/ ~children_display.ok \/ ~label.ok \/ ~enabled.ok
        \/ ~visible.ok \/ ~icon_name.ok
     THEN [tag |-> "Err", item |-> MenuItemDefault]
     ELSE [tag |-> "Ok",
           item |->
             [menu EXCEPT
                !.children_display =
                   IF children_display.some THEN Some(children_display.value.value)
                   ELSE None,
                !.label = IF label.some THEN replace(label.value.value) ELSE << >>,
                !.enabled = IF enabled.some THEN enabled.value.value ELSE @,
                !.visible = IF visible.some THEN visible.value.value ELSE @,
                !.icon_name =
                   IF icon_name.some THEN Some(icon_name.value.value) ELSE None,
                !.disposition =
                   IF disposition.some /\ DispositionFromStr(disposition.value).some
                   THEN DispositionFromStr(disposition.value).value ELSE @,
                !.toggle_state =
                   IF toggle_state.some THEN ToggleStateFrom(toggle_state.value)
                   ELSE "Indeterminate",
                !.toggle_type =
                   IF toggle_type.some /\ ToggleTypeFromStr(toggle_type.value).some
                   THEN ToggleTypeFromStr(toggle_type.value).value
                   ELSE "CannotBeToggled",
                !.menu_type =
                   IF menu_type.some /\ MenuTypeFromStr(menu_type.value).some
                   THEN MenuTypeFromStr(menu_type.value).value
                   ELSE "Standard"]]

RECURSIVE MenuItem_try_from(_)
RECURSIVE try_from_each(_)

\* for value in values { let menu = MenuItem::try_from(value)?; push }
try_from_each(values) ==
  IF values = << >> THEN [tag |-> "Ok", items |-> << >>]
  ELSE LET menu == MenuItem_try_from(Head(values))
       IN IF menu.tag # "Ok" THEN [tag |-> menu.tag, items |-> << >>]
          ELSE LET rest == try_from_each(Tail(values))
               IN IF rest.tag # "Ok" THEN rest
                  ELSE [tag |-> "Ok", items |-> <<menu.item>> \o rest.items]

\* MenuItem::try_from(value): the item, an error, or the panic of expect
\* on a value that is no structure
MenuItem_try_from(value) ==
  IF value.type # "r" THEN [tag |-> "panic", item |-> MenuItemDefault]
  ELSE
    LET id == Field(value.value, 1)
        dict == Field(value.value, 2)
        array == Field(value.value, 3)
        with_id == [MenuItemDefault EXCEPT !.id = IF id.type = "i" THEN id.value ELSE @]
        with_dict == IF dict.type = "a{sv}" THEN FromDict(with_id, dict.value)
                     ELSE [tag |-> "Ok", item |-> with_id]
    IN IF with_dict.tag # "Ok" THEN with_dict
       ELSE IF array.type # "av" THEN with_dict
       ELSE LET submenu == try_from_each(array.value)
            IN IF submenu.tag # "Ok"
               THEN [tag |-> submenu.tag, item |-> MenuItemDefault]
               ELSE [tag |-> "Ok",
                     item |-> [with_dict.item EXCEPT !.submenu = submenu.items]]

\* no menu, where the conversion gave none
NoMenu == [id |-> 0, submenus |-> << >>]

\* TrayMenu::try_from(value: MenuLayout)
TrayMenu_try_from(value) ==
  LET submenus == try_from_each(value.submenus)
  IN IF submenus.tag # "Ok" THEN [tag |-> submenus.tag, menu |-> NoMenu]
     ELSE [tag |-> "Ok", menu |-> [id |-> value.id, submenus |-> submenus.items]]

---------------------------------------------------------------------------
(* State *)

VARIABLES
  peers,       \* the session bus: unique name -> "new", "up", "named" or "gone"
  changed,     \* NameOwnerChanged signals waiting on the peer-death watcher's stream
  registered_status_notifier_items,    \* DbusNotifierWatcher's registry
  status_notifier_hosts,               \* DbusNotifierWatcher's host names
  is_status_notifier_host_registered,  \* DbusNotifierWatcher's flag
  channel,     \* every message sent on the broadcast channel, in send order
  inserted,    \* history: how many registry insertions added a new entry
  events,      \* history: how many registrations and signals the items made
  handle,      \* status_notifier_handle: its position and the items it still has to visit
  new_notifier,  \* StatusNotifierItemRegistered signals waiting on the tracker's stream
  tasks,       \* the property tasks watch_notifier_props spawned
  menu_tasks,  \* the menu-signal tasks watch_menu spawned
  fetched,     \* history: the item of the last fetch of an address that converted
  rx,          \* NotifierHost.rx of each host: the broadcast receiver
  engine,      \* StatusNotifierWatcher::new and start_notifier_watcher: how far the start-up got
  dispatcher,  \* dispatch_ui_command: the command queue, its position, the calls it made
  call         \* a conversion of the data model: its input and, once made, its result

busVars == <<peers, changed>>
histVars == <<inserted, events>>
watcherVars == <<registered_status_notifier_items, status_notifier_hosts,
                 is_status_notifier_host_registered, rx, engine, dispatcher,
                 call>>
hostVars == <<status_notifier_hosts, is_status_notifier_host_registered, rx,
              dispatcher, call>>
trackerVars == <<handle, new_notifier, tasks, menu_tasks, fetched>>
vars == <<peers, changed, registered_status_notifier_items,
          status_notifier_hosts, is_status_notifier_host_registered,
          channel, inserted, events, handle, new_notifier, tasks, menu_tasks,
          fetched, rx, engine, dispatcher, call>>

Connected(u) == peers[u] \in {"up", "named"}

\* the engine once start_notifier_watcher has returned Ok and the peer-death
\* watcher has subscribed, with the application holding the handle
Running ==
  [name |-> "ours",         \* who owns org.kde.StatusNotifierWatcher: "free", "ours", "other"
   start |-> "done",        \* the task of start_notifier_watcher: "spawned", "done", "panicked"
   service |-> "up",        \* the DbusNotifierWatcher on the connection: "none", "up", "stopped"
   removed |-> "listening", \* status_notifier_removed_handle: "none", "spawned", "listening"
   watcher |-> "held"]      \* the StatusNotifierWatcher new returned: "held", "dropped"

\* a MenuItemClicked that is not there
NoCommand == [submenu_id |-> 0, menu_path |-> Empty, notifier_address |-> Empty]

\* the task of dispatch_ui_command as new spawns it
Dispatcher ==
  [pc |-> "connect",        \* "connect", "recv", "event", "failed", "panicked"
   cmd_rx |-> << >>,        \* the commands waiting in the mpsc channel
   command |-> NoCommand,   \* the command taken from cmd_rx
   taken |-> << >>,         \* history: the commands taken from cmd_rx
   calls |-> << >>]         \* history: the Event calls made

\* no conversion is under way
NoCall == [fn |-> "none", input |-> Empty, done |-> FALSE, result |-> Empty]

\* whether the watcher service answers calls
Serving == engine.service = "up"

\* whether the broadcast channel has a receiver: the _rx of the handle or
\* the rx of a host
Receivers ==
  \/ engine.watcher = "held"
  \/ \E h \in HostIds : rx[h].state = "alive"

\* a NameOwnerChanged signal; an absent owner is the empty string
\* no properties were fetched yet
NeverFetched == [u \in UniqueNames |-> NoItem]

\* the addresses whose properties were fetched and converted
Fetched == {u \in UniqueNames : fetched[u] # NoItem}

NameOwnerChanged(name, old, new) == [name |-> name, old |-> old, new |-> new]

\* DbusNotifierWatcher::new, start_notifier_watcher and the bus before any
\* peer connected: the peer-death watcher has subscribed to NameOwnerChanged,
\* status_notifier_handle has not yet read the registry
Init ==
  /\ peers = [u \in UniqueNames |-> "new"]
  /\ changed = << >>
  /\ registered_status_notifier_items = {}
  /\ status_notifier_hosts = {}
  /\ is_status_notifier_host_registered = FALSE
  /\ channel = << >>
  /\ inserted = 0
  /\ events = 0
  /\ handle = [pc |-> "start", notifier_items |-> {}]
  /\ new_notifier = << >>
  /\ tasks = << >>
  /\ menu_tasks = << >>
  /\ fetched = NeverFetched
  /\ rx = [h \in HostIds |-> NoReceiver]
  /\ engine = Running
  /\ dispatcher = Dispatcher
  /\ call = NoCall

---------------------------------------------------------------------------
(* The session bus *)

\* a peer connects: the bus gives it its unique name
Connect(u) ==
  /\ peers[u] = "new"
  /\ peers' = [peers EXCEPT ![u] = "up"]
  /\ changed' = Append(changed, NameOwnerChanged(u, Empty, u))
  /\ UNCHANGED <<watcherVars, channel, histVars, trackerVars>>

\* a connected peer acquires its well-known name
RequestName(u) ==
  /\ peers[u] = "up"
  /\ peers' = [peers EXCEPT ![u] = "named"]
  /\ changed' = Append(changed, NameOwnerChanged(WellKnown(u), Empty, u))
  /\ UNCHANGED <<watcherVars, channel, histVars, trackerVars>>

\* a connected peer releases its well-known name and stays on the bus
ReleaseName(u) ==
  /\ peers[u] = "named"
  /\ peers' = [peers EXCEPT ![u] = "up"]
  /\ changed' = Append(changed, NameOwnerChanged(WellKnown(u), u, Empty))
  /\ UNCHANGED <<watcherVars, channel, histVars, trackerVars>>

\* a peer leaves the bus: every name it owned loses its owner
Disconnect(u) ==
  /\ Connected(u)
  /\ changed' = changed \o
       (IF peers[u] = "named"
        THEN <<NameOwnerChanged(WellKnown(u), u, Empty)>> ELSE << >>)
       \o <<NameOwnerChanged(u, u, Empty)>>
  /\ peers' = [peers EXCEPT ![u] = "gone"]
  /\ UNCHANGED <<watcherVars, channel, histVars, trackerVars>>

---------------------------------------------------------------------------
(* The watcher service, dbus/notifier_watcher_service.rs *)

\* remove_notifier: the entries find() may return
Matching(notifier_address) ==
  {item \in registered_status_notifier_items : Contains(item, notifier_address)}

\* remove_notifier: one matching entry, in the HashSet's iteration order,
\* is removed and one Remove carrying the argument is sent; when the channel
\* has no receiver the send fails and its expect panics in the handler,
\* after which the service may or may not answer further calls
\* remove_notifier that takes every entry that contains the argument
remove_notifier_all(notifier_address) ==
  IF Matching(notifier_address) = {}
  THEN UNCHANGED <<registered_status_notifier_items, channel, engine>>
  ELSE /\ registered_status_notifier_items' =
            registered_status_notifier_items \ Matching(notifier_address)
       /\ IF Receivers
          THEN /\ channel' = Append(channel, RemoveMsg(notifier_address))
               /\ UNCHANGED engine
          ELSE /\ UNCHANGED channel
               /\ \E service \in {"up", "stopped"} :
                    engine' = [engine EXCEPT !.service = service]

remove_notifier(notifier_address) ==
  IF Matching(notifier_address) = {}
  THEN UNCHANGED <<registered_status_notifier_items, channel, engine>>
  ELSE \E notifier \in Matching(notifier_address) :
         /\ registered_status_notifier_items' =
              registered_status_notifier_items \ {notifier}
         /\ IF Receivers
            THEN /\ channel' = Append(channel, RemoveMsg(notifier_address))
                 /\ UNCHANGED engine
            ELSE /\ UNCHANGED channel
                 /\ \E service \in {"up", "stopped"} :
                      engine' = [engine EXCEPT !.service = service]

\* RegisterStatusNotifierItem(service), called by connection u; the
\* StatusNotifierItemRegistered signal reaches the tracker's stream once
\* the tracker has subscribed to it
register_status_notifier_item(u, service) ==
  /\ Serving
  /\ Connected(u)
  /\ LET notifier_item == Composite(u, service)
     IN /\ registered_status_notifier_items' =
             registered_status_notifier_items \cup {notifier_item}
        /\ inserted' = IF notifier_item \in registered_status_notifier_items
                       THEN inserted ELSE inserted + 1
        /\ new_notifier' = IF handle.pc = "listen"
                           THEN Append(new_notifier, notifier_item)
                           ELSE new_notifier
  /\ events' = events + 1
  /\ UNCHANGED <<busVars, hostVars, engine, channel, handle, tasks, menu_tasks,
                 fetched>>

\* RegisterStatusNotifierHost that leaves the flag as it is
register_status_notifier_host_no_flag(service) ==
  /\ status_notifier_hosts' = status_notifier_hosts \cup {service}
  /\ UNCHANGED is_status_notifier_host_registered

\* RegisterStatusNotifierHost(service)
register_status_notifier_host(service) ==
  /\ status_notifier_hosts' = status_notifier_hosts \cup {service}
  /\ is_status_notifier_host_registered' = TRUE

\* UnregisterStatusNotifierItem(service), called by any client
unregister_status_notifier_item(service) ==
  /\ Serving
  /\ remove_notifier(service)
  /\ UNCHANGED <<busVars, hostVars, histVars, trackerVars>>

---------------------------------------------------------------------------
(* The start-up, notifier_watcher/mod.rs *)

\* the task StatusNotifierWatcher::new spawned for start_notifier_watcher:
\* the connection is built with the watcher's name and the service; on
\* success the peer-death watcher and the tracker are spawned, on an error
\* (the name has an owner) expect panics, in the task
start_notifier_watcher ==
  /\ engine.start = "spawned"
  /\ IF engine.name = "free"
     THEN engine' = [engine EXCEPT !.name = "ours", !.service = "up",
                                   !.removed = "spawned", !.start = "done"]
     ELSE engine' = [engine EXCEPT !.start = "panicked"]
  /\ UNCHANGED <<busVars, registered_status_notifier_items, hostVars, channel,
                 histVars, trackerVars>>

---------------------------------------------------------------------------
(* The peer-death watcher, notifier_watcher/mod.rs *)

\* DBusProxy::new and receive_name_owner_changed: from here on the signals
\* of the bus reach the stream
status_notifier_removed_handle_subscribe ==
  /\ engine.removed = "spawned"
  /\ engine' = [engine EXCEPT !.removed = "listening"]
  /\ UNCHANGED <<busVars, registered_status_notifier_items, hostVars, channel,
                 histVars, trackerVars>>

\* the loop with a question mark on the call: a call that fails ends
\* status_notifier_removed_handle
status_notifier_removed_handle_strict ==
  /\ engine.removed = "listening"
  /\ changed # << >>
  /\ changed' = Tail(changed)
  /\ LET args == Head(changed)
     IN IF args.old # Empty /\ args.new = Empty
        THEN IF Serving /\ (Matching(args.old) = {} \/ Receivers)
             THEN remove_notifier(args.old)
             ELSE /\ engine' = [engine EXCEPT !.removed = "none"]
                  /\ UNCHANGED <<registered_status_notifier_items, channel>>
        ELSE UNCHANGED <<registered_status_notifier_items, channel, engine>>
  /\ UNCHANGED <<peers, hostVars, histVars, trackerVars>>

\* one turn of status_notifier_removed_handle's loop: take the next signal
\* and, when an owner was lost, call UnregisterStatusNotifierItem(old)
status_notifier_removed_handle ==
  /\ engine.removed = "listening"
  /\ changed # << >>
  /\ changed' = Tail(changed)
  /\ LET args == Head(changed)
     IN IF args.old # Empty /\ args.new = Empty /\ Serving
        THEN remove_notifier(args.old)
        ELSE UNCHANGED <<registered_status_notifier_items, channel, engine>>
  /\ UNCHANGED <<peers, hostVars, histVars, trackerVars>>

---------------------------------------------------------------------------
(* The notifier tracker, notifier_watcher/mod.rs.  The tasks run on tokio's  *)
(* multi-threaded runtime: a spawned task runs beside the task that spawned *)
(* it, so what a task does after a spawn is a step of its own.               *)

\* the positions at which a task has ended: its future returned an error
\* ("failed") or panicked ("panicked")
Ended == {"failed", "panicked"}

\* whether a D-Bus call to this destination can be answered
Reachable(destination) == destination \in UniqueNames /\ Connected(destination)

\* the task watch_notifier_props spawns for an address
PropsTask(address_parts) ==
  [destination |-> address_parts.destination, path |-> address_parts.path,
   pc |-> "fetch",        \* where the task stands
   subscribed |-> FALSE,  \* whether props_changed exists
   pending |-> 0,         \* signals waiting on props_changed
   item |-> NoItem,       \* fetch_properties_and_update's item
   menu |-> "None",       \* fetch_properties_and_update's menu
   sent |-> FALSE,        \* history: the task has broadcast an Update
   stale |-> FALSE]       \* history: the item changed since the last GetAll, unheard

\* the task watch_menu spawns; parent is the property task that spawned it
MenuTask(t) ==
  [address |-> tasks[t].destination, item |-> tasks[t].item,
   pc |-> "start", pending |-> 0, parent |-> t]

\* watch_notifier_props
watch_notifier_props(address_parts) ==
  tasks' = Append(tasks, PropsTask(address_parts))

\* status_notifier_handle reads RegisteredStatusNotifierItems
status_notifier_handle_start ==
  /\ Serving
  /\ handle.pc = "start"
  /\ handle' = [pc |-> "initial",
                notifier_items |-> registered_status_notifier_items]
  /\ UNCHANGED <<busVars, watcherVars, channel, histVars, new_notifier, tasks,
                 menu_tasks, fetched>>

\* the loop over the items read with a question mark on the parser's
\* result: a string that does not parse ends status_notifier_handle
status_notifier_handle_initial_strict ==
  /\ handle.pc = "initial"
  /\ \E service \in handle.notifier_items :
       LET address == from_notifier_service(service)
       IN IF address.ok
          THEN /\ handle' = [handle EXCEPT !.notifier_items = @ \ {service}]
               /\ watch_notifier_props(address)
          ELSE /\ handle' = [handle EXCEPT !.pc = "dead"]
               /\ UNCHANGED tasks
  /\ UNCHANGED <<busVars, watcherVars, channel, histVars, new_notifier,
                 menu_tasks, fetched>>

\* status_notifier_handle: one turn of the loop over the items read
status_notifier_handle_initial ==
  /\ handle.pc = "initial"
  /\ \E service \in handle.notifier_items :
       /\ handle' = [handle EXCEPT !.notifier_items = @ \ {service}]
       /\ LET address == from_notifier_service(service)
          IN IF address.ok THEN watch_notifier_props(address)
                           ELSE UNCHANGED tasks
  /\ UNCHANGED <<busVars, watcherVars, channel, histVars, new_notifier,
                 menu_tasks, fetched>>

\* status_notifier_handle subscribes to StatusNotifierItemRegistered
status_notifier_handle_subscribe ==
  /\ handle.pc = "initial"
  /\ handle.notifier_items = {}
  /\ handle' = [handle EXCEPT !.pc = "listen"]
  /\ UNCHANGED <<busVars, watcherVars, channel, histVars, new_notifier, tasks,
                 menu_tasks, fetched>>

\* status_notifier_handle: one turn of the loop over new_notifier
status_notifier_handle_registered ==
  /\ handle.pc = "listen"
  /\ new_notifier # << >>
  /\ new_notifier' = Tail(new_notifier)
  /\ LET address == from_notifier_service(Head(new_notifier))
     IN IF address.ok THEN watch_notifier_props(address)
                      ELSE UNCHANGED tasks
  /\ UNCHANGED <<busVars, watcherVars, channel, histVars, handle, menu_tasks,
                 fetched>>

\* a task whose failure is not confined: it takes the listener with it
TaskEndsUnconfined(t, how) ==
  /\ tasks' = [tasks EXCEPT ![t].pc = how, ![t].pending = 0,
                            ![t].item = NoItem, ![t].menu = "None"]
  /\ handle' = [handle EXCEPT !.pc = "dead"]

\* a property task ends by an error or a panic: tokio::spawn confines both
\* to the task
TaskEnds(t, how) ==
  /\ tasks' = [tasks EXCEPT ![t].pc = how, ![t].pending = 0,
                            ![t].item = NoItem, ![t].menu = "None"]
  /\ UNCHANGED handle

\* a menu-signal task ends by an error or a panic
MenuTaskEnds(m, how) ==
  /\ menu_tasks' = [menu_tasks EXCEPT ![m].pc = how, ![m].pending = 0]
  /\ UNCHANGED handle

\* where a property task goes when fetch_properties_and_update returned Ok
AfterFetch(task) == IF task.subscribed THEN "wait" ELSE "subscribe"

\* fetch_properties_and_update without the `if let Ok(item)`: a bag that
\* does not convert is sent on as an item
get_all_unchecked(t) ==
  /\ tasks[t].pc = "fetch"
  /\ \/ /\ ~Reachable(tasks[t].destination)
        /\ tasks' = [tasks EXCEPT ![t].pc = "failed", ![t].pending = 0]
        /\ UNCHANGED <<handle, fetched>>
     \/ /\ Reachable(tasks[t].destination)
        /\ \E props \in Bags :
             LET item == TryFromProps(props)
             IN /\ tasks' = [tasks EXCEPT ![t].item = item.item, ![t].pc = "send",
                                          ![t].stale = FALSE]
                /\ fetched' = IF item.tag = "Ok"
                              THEN [fetched EXCEPT ![tasks[t].destination] = item.item]
                              ELSE fetched
                /\ UNCHANGED handle
  /\ UNCHANGED <<busVars, watcherVars, channel, histVars, new_notifier,
                 menu_tasks>>

\* fetch_properties_and_update: GetAll and the conversion of its reply
fetch_properties_and_update_get_all(t) ==
  /\ tasks[t].pc = "fetch"
  /\ \/ /\ ~Reachable(tasks[t].destination)
        /\ TaskEnds(t, "failed")
        /\ UNCHANGED fetched
     \/ /\ Reachable(tasks[t].destination)
        /\ \E props \in Bags :
             LET item == TryFromProps(props)
             IN CASE item.tag = "Panic" ->
                       TaskEnds(t, "panicked") /\ UNCHANGED fetched
                  [] item.tag = "Err" ->
                       /\ tasks' = [tasks EXCEPT ![t].pc = AfterFetch(tasks[t]),
                                                 ![t].stale = FALSE]
                       /\ UNCHANGED <<handle, fetched>>
                  [] item.tag = "Ok" ->
                       /\ tasks' = [tasks EXCEPT
                            ![t].item = item.item,
                            ![t].stale = FALSE,
                            ![t].pc = IF item.item.menu THEN "layout" ELSE "send"]
                       /\ fetched' = [fetched EXCEPT ![tasks[t].destination] = item.item]
                       /\ UNCHANGED handle
  /\ UNCHANGED <<busVars, watcherVars, channel, histVars, new_notifier,
                 menu_tasks>>

\* watch_menu, called by fetch_properties_and_update: the proxy,
\* get_layout(0, 10, &[]).await.unwrap(), tokio::spawn of the menu-signal
\* task and TrayMenu::try_from(menu), whose error .ok() turns into None
watch_menu(t) ==
  /\ tasks[t].pc = "layout"
  /\ \E menu \in LayoutResults :
       /\ Reachable(tasks[t].destination) \/ menu = "failed"
       /\ IF menu = "failed"
          THEN TaskEnds(t, "panicked") /\ UNCHANGED menu_tasks
          ELSE /\ menu_tasks' = Append(menu_tasks, MenuTask(t))
               /\ IF menu = "nolayout"
                  THEN TaskEnds(t, "panicked")
                  ELSE /\ tasks' = [tasks EXCEPT ![t].menu = MenuOf(menu),
                                                 ![t].pc = "send"]
                       /\ UNCHANGED handle
  /\ UNCHANGED <<busVars, watcherVars, channel, histVars, new_notifier, fetched>>

\* fetch_properties_and_update: sender.send(Update)
fetch_properties_and_update_send(t) ==
  /\ tasks[t].pc = "send"
  /\ IF Receivers
     THEN /\ channel' = Append(channel,
               UpdateMsg(tasks[t].destination, tasks[t].item, tasks[t].menu))
          /\ tasks' = [tasks EXCEPT ![t].sent = TRUE, ![t].item = NoItem,
                                    ![t].menu = "None",
                                    ![t].pc = AfterFetch(tasks[t])]
          /\ UNCHANGED handle
     ELSE \* expect("Failed to dispatch NotifierItemMessage")
          TaskEnds(t, "panicked") /\ UNCHANGED channel
  /\ UNCHANGED <<busVars, watcherVars, histVars, new_notifier, menu_tasks,
                 fetched>>

\* watch_notifier_props: the item proxy and receive_all_signals
watch_notifier_props_subscribe(t) ==
  /\ tasks[t].pc = "subscribe"
  /\ tasks' = [tasks EXCEPT ![t].subscribed = TRUE, ![t].pc = "wait"]
  /\ UNCHANGED <<busVars, watcherVars, channel, histVars, handle, new_notifier,
                 menu_tasks, fetched>>

\* watch_notifier_props: props_changed.next() yields a signal
watch_notifier_props_next(t) ==
  /\ tasks[t].pc = "wait"
  /\ tasks[t].pending > 0
  /\ tasks' = [tasks EXCEPT ![t].pending = @ - 1, ![t].pc = "fetch"]
  /\ UNCHANGED <<busVars, watcherVars, channel, histVars, handle, new_notifier,
                 menu_tasks, fetched>>

\* the menu-signal task: the proxy and receive_all_signals
menu_task_subscribe(m) ==
  /\ menu_tasks[m].pc = "start"
  /\ menu_tasks' = [menu_tasks EXCEPT ![m].pc = "wait"]
  /\ UNCHANGED <<busVars, watcherVars, channel, histVars, handle, new_notifier,
                 tasks, fetched>>

\* the menu-signal task: props_changed.next() yields a signal
menu_task_next(m) ==
  /\ menu_tasks[m].pc = "wait"
  /\ menu_tasks[m].pending > 0
  /\ menu_tasks' = [menu_tasks EXCEPT ![m].pending = @ - 1, ![m].pc = "layout"]
  /\ UNCHANGED <<busVars, watcherVars, channel, histVars, handle, new_notifier,
                 tasks, fetched>>

\* the menu-signal task: get_layout(..).await.unwrap(), TrayMenu::try_from
\* and sender.send(Update) with the item the task was spawned with
menu_task_update(m) ==
  /\ menu_tasks[m].pc = "layout"
  /\ \E menu \in LayoutResults :
       /\ Reachable(menu_tasks[m].address) \/ menu = "failed"
       /\ IF menu \in {"failed", "nolayout"}
          THEN MenuTaskEnds(m, "panicked") /\ UNCHANGED channel
          ELSE IF Receivers
          THEN /\ channel' = Append(channel,
                    UpdateMsg(menu_tasks[m].address, menu_tasks[m].item,
                              MenuOf(menu)))
               /\ menu_tasks' = [menu_tasks EXCEPT ![m].pc = "wait"]
               /\ UNCHANGED handle
          ELSE \* sender.send(..)?
               MenuTaskEnds(m, "failed") /\ UNCHANGED channel
  /\ UNCHANGED <<busVars, watcherVars, histVars, new_notifier, tasks, fetched>>

\* the item at (u, path) emits a signal of org.kde.StatusNotifierItem: it
\* reaches every property task that subscribed to the item
ItemSignal(u, path) ==
  /\ Connected(u)
  /\ LET to == {t \in 1..Len(tasks) :
                  /\ tasks[t].destination = u /\ tasks[t].path = path
                  /\ tasks[t].subscribed /\ tasks[t].pc \notin Ended}
     IN /\ to # {}
        /\ tasks' = [t \in 1..Len(tasks) |->
                       IF t \in to THEN [tasks[t] EXCEPT !.pending = @ + 1]
                                   ELSE tasks[t]]
  /\ events' = events + 1
  /\ UNCHANGED <<busVars, watcherVars, channel, inserted, handle, new_notifier,
                 menu_tasks, fetched>>

\* the item at (u, path) emits a signal of org.kde.StatusNotifierItem while
\* a property task of it has had its GetAll answered and has not yet called
\* receive_all_signals: the signal is on no stream of that task
ItemSignalUnheard(u, path) ==
  /\ Connected(u)
  /\ LET past == {t \in 1..Len(tasks) :
                    /\ tasks[t].destination = u /\ tasks[t].path = path
                    /\ ~tasks[t].subscribed
                    /\ tasks[t].pc \in {"layout", "send", "subscribe"}}
     IN /\ past # {}
        /\ tasks' = [t \in 1..Len(tasks) |->
                       IF t \in past THEN [tasks[t] EXCEPT !.stale = TRUE]
                                     ELSE tasks[t]]
  /\ events' = events + 1
  /\ UNCHANGED <<busVars, watcherVars, channel, inserted, handle, new_notifier,
                 menu_tasks, fetched>>

\* the menu of u emits a signal of com.canonical.dbusmenu: it reaches every
\* menu-signal task that subscribed to it
MenuSignal(u) ==
  /\ Connected(u)
  /\ LET to == {m \in 1..Len(menu_tasks) :
                  /\ menu_tasks[m].address = u
                  /\ menu_tasks[m].pc \in {"wait", "layout"}}
     IN /\ to # {}
        /\ menu_tasks' = [m \in 1..Len(menu_tasks) |->
                            IF m \in to
                            THEN [menu_tasks[m] EXCEPT !.pending = @ + 1]
                            ELSE menu_tasks[m]]
  /\ events' = events + 1
  /\ UNCHANGED <<busVars, watcherVars, channel, inserted, handle, new_notifier,
                 tasks, fetched>>

---------------------------------------------------------------------------
(* The hosts, notifier_host/mod.rs *)

\* what reaches the peer-death watcher's stream of the signals the bus emits
Emit(signals) ==
  IF engine.removed = "listening" THEN changed \o signals ELSE changed

\* whether every broadcast sender is gone: the handle's tx and the clone the
\* task of start_notifier_watcher took, which the service and the tracker
\* keep once the start-up succeeded
SendersGone == engine.watcher = "dropped" /\ engine.start = "panicked"

\* recv that hands out the message and leaves the receiver where it was
recv_again(h) ==
  /\ rx[h].state = "alive"
  /\ rx[h].next < Len(channel)
  /\ rx' = [rx EXCEPT ![h].received = Append(@, channel[rx[h].next + 1])]
  /\ UNCHANGED <<busVars, registered_status_notifier_items,
                 status_notifier_hosts, is_status_notifier_host_registered,
                 channel, histVars, trackerVars, engine, dispatcher, call>>

\* create_notifier_host that subscribes whatever the registration returned
create_notifier_host_register_unchecked(unique_id) ==
  /\ rx[unique_id].state = "named"
  /\ IF engine.name = "ours" /\ Serving
     THEN register_status_notifier_host(wellknown_name(unique_id))
     ELSE UNCHANGED <<status_notifier_hosts, is_status_notifier_host_registered>>
  /\ rx' = [rx EXCEPT ![unique_id] = Subscribe(Len(channel))]
  /\ UNCHANGED <<busVars, registered_status_notifier_items, channel, histVars,
                 trackerVars, engine, dispatcher, call>>

\* create_notifier_host(unique_id), the connection: it gets a unique name
\* and requests the well-known name, which fails when a host of this
\* unique_id holds it
create_notifier_host_build(unique_id) ==
  /\ engine.watcher = "held"
  /\ \/ /\ rx[unique_id].state = "none"
        /\ changed' = Emit(
             <<NameOwnerChanged(HostConnection(unique_id), Empty,
                                HostConnection(unique_id)),
               NameOwnerChanged(wellknown_name(unique_id), Empty,
                                HostConnection(unique_id))>>)
        /\ rx' = [rx EXCEPT ![unique_id].state = "named"]
     \/ /\ rx[unique_id].state \in {"named", "alive"}
        /\ changed' = Emit(
             <<NameOwnerChanged(AttemptConnection(unique_id), Empty,
                                AttemptConnection(unique_id)),
               NameOwnerChanged(AttemptConnection(unique_id),
                                AttemptConnection(unique_id), Empty)>>)
        /\ UNCHANGED rx
  /\ UNCHANGED <<peers, registered_status_notifier_items,
                 status_notifier_hosts, is_status_notifier_host_registered,
                 channel, histVars, trackerVars, engine, dispatcher, call>>

\* create_notifier_host(unique_id), after the connection: the call of
\* RegisterStatusNotifierHost, answered by whoever owns the watcher's name,
\* and then self.tx.subscribe(); when the call fails the connection is
\* dropped and there is no host
create_notifier_host_register(unique_id) ==
  /\ rx[unique_id].state = "named"
  /\ IF engine.name = "ours" /\ Serving
     THEN /\ register_status_notifier_host(wellknown_name(unique_id))
          /\ rx' = [rx EXCEPT ![unique_id] = Subscribe(Len(channel))]
          /\ UNCHANGED changed
     ELSE IF engine.name = "other"
     THEN /\ rx' = [rx EXCEPT ![unique_id] = Subscribe(Len(channel))]
          /\ UNCHANGED <<status_notifier_hosts,
                         is_status_notifier_host_registered, changed>>
     ELSE /\ rx' = [rx EXCEPT ![unique_id] = NoReceiver]
          /\ changed' = Emit(
               <<NameOwnerChanged(wellknown_name(unique_id),
                                  HostConnection(unique_id), Empty),
                 NameOwnerChanged(HostConnection(unique_id),
                                  HostConnection(unique_id), Empty)>>)
          /\ UNCHANGED <<status_notifier_hosts,
                         is_status_notifier_host_registered>>
  /\ UNCHANGED <<peers, registered_status_notifier_items, channel, histVars,
                 trackerVars, engine, dispatcher, call>>

\* recv that does not wait: with nothing to read it returns the error of a
\* closed channel whether or not a sender is left
recv_no_wait(h) ==
  /\ rx[h].state = "alive"
  /\ \/ /\ rx[h].next < Len(channel)
        /\ rx' = IF Len(channel) - rx[h].next > Buffer
                 THEN [rx EXCEPT ![h].next = Len(channel) - Buffer,
                                 ![h].resume = Len(channel) - Buffer,
                                 ![h].lagged = TRUE]
                 ELSE [rx EXCEPT ![h].next = @ + 1,
                                 ![h].received =
                                   Append(@, channel[rx[h].next + 1])]
     \/ /\ rx[h].next = Len(channel)
        /\ rx' = [rx EXCEPT ![h].closed = TRUE]
  /\ UNCHANGED <<busVars, registered_status_notifier_items,
                 status_notifier_hosts, is_status_notifier_host_registered,
                 channel, histVars, trackerVars, engine, dispatcher, call>>

\* recv over a channel that holds the 5 of broadcast::channel(5) and no more
recv_capacity(h) ==
  /\ rx[h].state = "alive"
  /\ rx[h].next < Len(channel)
  /\ rx' = IF Len(channel) - rx[h].next > Capacity
           THEN [rx EXCEPT ![h].next = Len(channel) - Capacity,
                           ![h].resume = Len(channel) - Capacity,
                           ![h].lagged = TRUE]
           ELSE [rx EXCEPT ![h].next = @ + 1,
                           ![h].received = Append(@, channel[rx[h].next + 1])]
  /\ UNCHANGED <<busVars, registered_status_notifier_items,
                 status_notifier_hosts, is_status_notifier_host_registered,
                 channel, histVars, trackerVars, engine, dispatcher, call>>

\* NotifierHost::recv.  With a message the receiver has not read: the
\* message, or a lag error when its slot was overwritten, after which the
\* receiver stands at the oldest message the channel still holds.  With
\* nothing to read: the error of a closed channel when every sender is gone;
\* otherwise recv waits.
recv(h) ==
  /\ rx[h].state = "alive"
  /\ \/ /\ rx[h].next < Len(channel)
        /\ rx' = IF Len(channel) - rx[h].next > Buffer
                 THEN [rx EXCEPT ![h].next = Len(channel) - Buffer,
                                 ![h].resume = Len(channel) - Buffer,
                                 ![h].lagged = TRUE]
                 ELSE [rx EXCEPT ![h].next = @ + 1,
                                 ![h].received =
                                   Append(@, channel[rx[h].next + 1])]
     \/ /\ rx[h].next = Len(channel)
        /\ SendersGone
        /\ rx' = [rx EXCEPT ![h].closed = TRUE]
  /\ UNCHANGED <<busVars, registered_status_notifier_items,
                 status_notifier_hosts, is_status_notifier_host_registered,
                 channel, histVars, trackerVars, engine, dispatcher, call>>

\* NotifierHost::destroy: the name is released; the host and with it its
\* receiver and its connection are dropped
destroy(h) ==
  /\ rx[h].state = "alive"
  /\ changed' = Emit(
       <<NameOwnerChanged(wellknown_name(h), HostConnection(h), Empty),
         NameOwnerChanged(HostConnection(h), HostConnection(h), Empty)>>)
  /\ rx' = [rx EXCEPT ![h] = [NoReceiver EXCEPT !.state = "destroyed"]]
  /\ UNCHANGED <<peers, registered_status_notifier_items,
                 status_notifier_hosts, is_status_notifier_host_registered,
                 channel, histVars, trackerVars, engine, dispatcher, call>>

\* the application drops the StatusNotifierWatcher: its tx and _rx go, the
\* tasks new spawned go on
DropWatcher ==
  /\ engine.watcher = "held"
  /\ \A h \in HostIds : rx[h].state # "named"
  /\ engine' = [engine EXCEPT !.watcher = "dropped"]
  /\ UNCHANGED <<busVars, registered_status_notifier_items, hostVars, channel,
                 histVars, trackerVars>>

---------------------------------------------------------------------------
(* The UI command dispatcher, notifier_watcher/mod.rs *)

\* the strings a UI passes in a MenuItemClicked: what an Update carried, and
\* strings that are no bus name and no object path
Addresses == {U9, Empty}
MenuPaths == {PathA, <<"m">>}
SubmenuIds == {1, 2}
Commands ==
  [submenu_id : SubmenuIds, menu_path : MenuPaths, notifier_address : Addresses]

\* chrono's timestamp_subsec_micros()
Timestamps == {0, 999999}

\* what ProxyBuilder::destination accepts: a bus name has at least two
\* elements, separated by periods
ValidBusName(name) ==
  /\ Len(name) >= 3
  /\ \E i \in 2..(Len(name) - 1) : name[i] = "."

\* what ProxyBuilder::path accepts: an object path begins with a slash and,
\* unless it is the root, does not end with one
ValidObjectPath(path) ==
  /\ Len(path) >= 1
  /\ path[1] = "/"
  /\ Len(path) > 1 => path[Len(path)] # "/"

\* the call of com.canonical.dbusmenu.Event as dispatch_ui_command makes it
EventCall(command, timestamp, result) ==
  [destination |-> command.notifier_address, path |-> command.menu_path,
   id |-> command.submenu_id, event_id |-> "clicked", data |-> 32,
   timestamp |-> timestamp, result |-> result]

\* the UI sends a command into the mpsc channel
SendCommand(command) ==
  /\ dispatcher' = [dispatcher EXCEPT !.cmd_rx = Append(@, command)]
  /\ UNCHANGED <<busVars, registered_status_notifier_items,
                 status_notifier_hosts, is_status_notifier_host_registered,
                 rx, engine, channel, histVars, trackerVars, call>>

\* Connection::session().await?: with no session bus the function returns
\* the error and expect panics, in the task
dispatch_ui_command_connect ==
  /\ dispatcher.pc = "connect"
  /\ \E pc \in {"recv", "panicked"} : dispatcher' = [dispatcher EXCEPT !.pc = pc]
  /\ UNCHANGED <<busVars, registered_status_notifier_items,
                 status_notifier_hosts, is_status_notifier_host_registered,
                 rx, engine, channel, histVars, trackerVars, call>>

\* while let Some(command) = cmd_rx.recv().await
dispatch_ui_command_recv ==
  /\ dispatcher.pc = "recv"
  /\ dispatcher.cmd_rx # << >>
  /\ dispatcher' = [dispatcher EXCEPT !.pc = "event",
                                      !.cmd_rx = Tail(@),
                                      !.command = Head(dispatcher.cmd_rx),
                                      !.taken = Append(@, Head(dispatcher.cmd_rx))]
  /\ UNCHANGED <<busVars, registered_status_notifier_items,
                 status_notifier_hosts, is_status_notifier_host_registered,
                 rx, engine, channel, histVars, trackerVars, call>>

\* the body of the loop: the proxy is built, where destination(..).unwrap()
\* and path(..).unwrap() panic on a string that is no bus name or no object
\* path, and Event is called, where an error of the call (nobody owns the
\* destination) ends the function through ? and the task through expect
dispatch_ui_command_event ==
  /\ dispatcher.pc = "event"
  /\ LET command == dispatcher.command
     IN IF ~ValidBusName(command.notifier_address)
           \/ ~ValidObjectPath(command.menu_path)
        THEN dispatcher' = [dispatcher EXCEPT !.pc = "panicked",
                                             !.command = NoCommand]
        ELSE \E timestamp \in Timestamps :
               IF Reachable(command.notifier_address)
               THEN dispatcher' =
                      [dispatcher EXCEPT !.pc = "recv", !.command = NoCommand,
                         !.calls = Append(@, EventCall(command, timestamp, "ok"))]
               ELSE dispatcher' =
                      [dispatcher EXCEPT !.pc = "panicked", !.command = NoCommand,
                         !.calls = Append(@, EventCall(command, timestamp, "error"))]
  /\ UNCHANGED <<busVars, registered_status_notifier_items,
                 status_notifier_hosts, is_status_notifier_host_registered,
                 rx, engine, channel, histVars, trackerVars, call>>

---------------------------------------------------------------------------
(* The watcher service and the bus *)

\* the arguments clients pass to UnregisterStatusNotifierItem: a unique
\* name, an object path alone, a full registration string
UnregisterArgs == {U9, PathA, Composite(U99, PathA)}

Next ==
  \/ \E u \in UniqueNames : Connect(u) /\ Len(changed') <= MaxChanged
  \/ \E u \in UniqueNames : RequestName(u) /\ Len(changed') <= MaxChanged
  \/ \E u \in UniqueNames : ReleaseName(u) /\ Len(changed') <= MaxChanged
  \/ \E u \in UniqueNames : Disconnect(u) /\ Len(changed') <= MaxChanged
  \/ \E u \in UniqueNames, s \in Paths :
       events < MaxEvents /\ register_status_notifier_item(u, s)
  \/ \E a \in UnregisterArgs :
       Len(channel) < MaxMessages /\ unregister_status_notifier_item(a)
  \/ Len(channel) < MaxMessages /\ status_notifier_removed_handle

Spec == Init /\ [][Next]_vars

---------------------------------------------------------------------------
(* The tracker beside the watcher service and the bus *)

\* the item of this specification: one connection that registers one path
TrackedPeers == {U9}
TrackedPaths == {PathA}

\* the state in which the tracker starts here: the peer has connected and
\* the peer-death watcher has seen the signal of that
TrackerInit ==
  /\ peers = [u \in UniqueNames |-> IF u \in TrackedPeers THEN "up" ELSE "new"]
  /\ changed = << >>
  /\ registered_status_notifier_items = {}
  /\ status_notifier_hosts = {}
  /\ is_status_notifier_host_registered = FALSE
  /\ channel = << >>
  /\ inserted = 0
  /\ events = 0
  /\ handle = [pc |-> "start", notifier_items |-> {}]
  /\ new_notifier = << >>
  /\ tasks = << >>
  /\ menu_tasks = << >>
  /\ fetched = NeverFetched
  /\ rx = [h \in HostIds |-> NoReceiver]
  /\ engine = Running
  /\ dispatcher = Dispatcher
  /\ call = NoCall

\* the steps of the tracker's tasks
TaskStep(t) ==
  \/ fetch_properties_and_update_get_all(t)
  \/ watch_menu(t)
  \/ fetch_properties_and_update_send(t)
  \/ watch_notifier_props_subscribe(t)
  \/ watch_notifier_props_next(t)

MenuTaskStep(m) ==
  \/ menu_task_subscribe(m)
  \/ menu_task_next(m)
  \/ menu_task_update(m)

TrackerNext ==
  \/ \E u \in TrackedPeers : Disconnect(u)
  \/ \E u \in TrackedPeers, s \in TrackedPaths :
       events < MaxEvents /\ register_status_notifier_item(u, s)
  \/ status_notifier_removed_handle
  \/ status_notifier_handle_start
  \/ status_notifier_handle_initial
  \/ status_notifier_handle_subscribe
  \/ status_notifier_handle_registered
  \/ \E t \in 1..Len(tasks) : TaskStep(t)
  \/ \E m \in 1..Len(menu_tasks) : MenuTaskStep(m)
  \/ \E u \in TrackedPeers, s \in TrackedPaths :
       events < MaxEvents /\ ItemSignal(u, s)
  \/ \E u \in TrackedPeers : events < MaxEvents /\ MenuSignal(u)

TrackerSpec == TrackerInit /\ [][TrackerNext]_vars

---------------------------------------------------------------------------
(* Two items beside each other: the tracker up to the first Update of each *)

\* both peers have connected
ItemsInit ==
  /\ peers = [u \in UniqueNames |-> "up"]
  /\ changed = << >>
  /\ registered_status_notifier_items = {}
  /\ status_notifier_hosts = {}
  /\ is_status_notifier_host_registered = FALSE
  /\ channel = << >>
  /\ inserted = 0
  /\ events = 0
  /\ handle = [pc |-> "start", notifier_items |-> {}]
  /\ new_notifier = << >>
  /\ tasks = << >>
  /\ menu_tasks = << >>
  /\ fetched = NeverFetched
  /\ rx = [h \in HostIds |-> NoReceiver]
  /\ engine = Running
  /\ dispatcher = Dispatcher
  /\ call = NoCall

ItemsNext ==
  \/ \E u \in UniqueNames : Disconnect(u)
  \/ \E u \in UniqueNames, s \in TrackedPaths :
       /\ events < MaxEvents
       /\ Composite(u, s) \notin registered_status_notifier_items
       /\ register_status_notifier_item(u, s)
  \/ status_notifier_removed_handle
  \/ status_notifier_handle_start
  \/ status_notifier_handle_initial
  \/ status_notifier_handle_subscribe
  \/ status_notifier_handle_registered
  \/ \E t \in 1..Len(tasks) : fetch_properties_and_update_get_all(t)
  \/ \E t \in 1..Len(tasks) : watch_menu(t)
  \/ \E t \in 1..Len(tasks) : fetch_properties_and_update_send(t)
  \/ \E t \in 1..Len(tasks) : watch_notifier_props_subscribe(t)
  \/ \E m \in 1..Len(menu_tasks) : menu_task_subscribe(m)

ItemsSpec == ItemsInit /\ [][ItemsNext]_vars

---------------------------------------------------------------------------
(* Two items of one connection: the tracker up to the first Update of each *)

PathsNext ==
  \/ \E u \in TrackedPeers, s \in Paths :
       /\ events < MaxEvents
       /\ Composite(u, s) \notin registered_status_notifier_items
       /\ register_status_notifier_item(u, s)
  \/ status_notifier_handle_start
  \/ status_notifier_handle_initial
  \/ status_notifier_handle_subscribe
  \/ status_notifier_handle_registered
  \/ \E t \in 1..Len(tasks) : fetch_properties_and_update_get_all(t)
  \/ \E t \in 1..Len(tasks) : watch_menu(t)
  \/ \E t \in 1..Len(tasks) : fetch_properties_and_update_send(t)
  \/ \E t \in 1..Len(tasks) : watch_notifier_props_subscribe(t)
  \/ \E m \in 1..Len(menu_tasks) : menu_task_subscribe(m)

PathsSpec == TrackerInit /\ [][PathsNext]_vars

---------------------------------------------------------------------------
(* The UI command dispatcher beside the item's connection *)

\* how many commands the UI has sent
CommandsSent == Len(dispatcher.taken) + Len(dispatcher.cmd_rx)

CommandNext ==
  \/ \E command \in Commands :
       CommandsSent < MaxCommands /\ SendCommand(command)
  \/ dispatch_ui_command_connect
  \/ dispatch_ui_command_recv
  \/ dispatch_ui_command_event
  \/ \E u \in TrackedPeers : Disconnect(u) /\ Len(changed') <= MaxChanged

CommandSpec == TrackerInit /\ [][CommandNext]_vars

---------------------------------------------------------------------------
(* One registered item whose properties and menu change *)

\* the item has registered before the tracker read the registry
RefreshInit ==
  /\ peers = [u \in UniqueNames |-> IF u \in TrackedPeers THEN "up" ELSE "new"]
  /\ changed = << >>
  /\ registered_status_notifier_items =
       {Composite(u, s) : u \in TrackedPeers, s \in TrackedPaths}
  /\ status_notifier_hosts = {}
  /\ is_status_notifier_host_registered = FALSE
  /\ channel = << >>
  /\ inserted = 1
  /\ events = 0
  /\ handle = [pc |-> "start", notifier_items |-> {}]
  /\ new_notifier = << >>
  /\ tasks = << >>
  /\ menu_tasks = << >>
  /\ fetched = NeverFetched
  /\ rx = [h \in HostIds |-> NoReceiver]
  /\ engine = Running
  /\ dispatcher = Dispatcher
  /\ call = NoCall

RefreshNext ==
  \/ status_notifier_handle_start
  \/ status_notifier_handle_initial
  \/ status_notifier_handle_subscribe
  \/ \E t \in 1..Len(tasks) : TaskStep(t)
  \/ \E m \in 1..Len(menu_tasks) : MenuTaskStep(m)
  \/ \E u \in TrackedPeers, s \in TrackedPaths :
       events < MaxEvents /\ ItemSignal(u, s)
  \/ \E u \in TrackedPeers : events < MaxEvents /\ MenuSignal(u)
  \/ \E u \in TrackedPeers, s \in TrackedPaths :
       events < MaxEvents /\ ItemSignalUnheard(u, s)

RefreshSpec == RefreshInit /\ [][RefreshNext]_vars

---------------------------------------------------------------------------
(* The peer-death watcher once the application has dropped the watcher *)

DroppedNext ==
  \/ \E u \in UniqueNames : Connect(u) /\ Len(changed') <= MaxChanged
  \/ \E u \in UniqueNames : Disconnect(u) /\ Len(changed') <= MaxChanged
  \/ \E u \in UniqueNames, s \in Paths :
       events < MaxEvents /\ register_status_notifier_item(u, s)
  \/ DropWatcher
  \/ status_notifier_removed_handle

DroppedSpec == Init /\ [][DroppedNext]_vars

---------------------------------------------------------------------------
(* The tracker on the strings the watcher's proxy may hand it *)

\* what RegisteredStatusNotifierItems and StatusNotifierItemRegistered may
\* carry: the composite of an item, and two strings that hold no slash and
\* no colon
Unparsable == {<<"a">>, <<"1", ".", "9">>}
RegistryStrings == {Composite(U9, PathA)} \cup Unparsable

\* the registry when the tracker reads it
RegistryInit ==
  /\ peers = [u \in UniqueNames |-> IF u \in TrackedPeers THEN "up" ELSE "new"]
  /\ changed = << >>
  /\ registered_status_notifier_items \in SUBSET RegistryStrings
  /\ status_notifier_hosts = {}
  /\ is_status_notifier_host_registered = FALSE
  /\ channel = << >>
  /\ inserted = Cardinality(registered_status_notifier_items)
  /\ events = 0
  /\ handle = [pc |-> "start", notifier_items |-> {}]
  /\ new_notifier = << >>
  /\ tasks = << >>
  /\ menu_tasks = << >>
  /\ fetched = NeverFetched
  /\ rx = [h \in HostIds |-> NoReceiver]
  /\ engine = Running
  /\ dispatcher = Dispatcher
  /\ call = NoCall

\* a StatusNotifierItemRegistered signal reaches the tracker's stream
status_notifier_item_registered(service) ==
  /\ handle.pc = "listen"
  /\ new_notifier' = Append(new_notifier, service)
  /\ events' = events + 1
  /\ UNCHANGED <<busVars, watcherVars, channel, inserted, handle, tasks,
                 menu_tasks, fetched>>

RegistryNext ==
  \/ status_notifier_handle_start
  \/ status_notifier_handle_initial
  \/ status_notifier_handle_subscribe
  \/ status_notifier_handle_registered /\ Len(tasks') <= MaxMessages
  \/ \E t \in 1..Len(tasks) : TaskStep(t)
  \/ \E service \in RegistryStrings :
       events < MaxEvents /\ status_notifier_item_registered(service)

RegistrySpec == RegistryInit /\ [][RegistryNext]_vars

---------------------------------------------------------------------------
(* The registrations of one connection, whatever it passes as the service *)

\* what items pass to RegisterStatusNotifierItem: an object path, a bus
\* name, their own unique name, and their unique name with the path
Services == {PathA, <<"o", ".", "x">>, U9, Composite(U9, PathA)}

ServicesNext ==
  \/ \E u \in TrackedPeers, service \in Services :
       events < MaxEvents /\ register_status_notifier_item(u, service)
  \/ status_notifier_handle_start
  \/ status_notifier_handle_initial
  \/ status_notifier_handle_subscribe
  \/ status_notifier_handle_registered

ServicesSpec == TrackerInit /\ [][ServicesNext]_vars

---------------------------------------------------------------------------
(* The conversions of the data model, each on the inputs it may be given *)

\* everything but the conversion under way
engineVars == <<peers, changed, registered_status_notifier_items,
                status_notifier_hosts, is_status_notifier_host_registered,
                channel, inserted, events, handle, new_notifier, tasks,
                menu_tasks, fetched, rx, engine, dispatcher>>

\* the engine as it stands in TrackerInit
Quiet ==
  /\ peers = [u \in UniqueNames |-> IF u \in TrackedPeers THEN "up" ELSE "new"]
  /\ changed = << >>
  /\ registered_status_notifier_items = {}
  /\ status_notifier_hosts = {}
  /\ is_status_notifier_host_registered = FALSE
  /\ channel = << >>
  /\ inserted = 0
  /\ events = 0
  /\ handle = [pc |-> "start", notifier_items |-> {}]
  /\ new_notifier = << >>
  /\ tasks = << >>
  /\ menu_tasks = << >>
  /\ fetched = NeverFetched
  /\ rx = [h \in HostIds |-> NoReceiver]
  /\ engine = Running
  /\ dispatcher = Dispatcher

\* the strings of at most n characters out of chars
Strings(chars, n) == UNION {[1..k -> chars] : k \in 0..n}

\* a conversion that is to be made
Call(fn, input) == [fn |-> fn, input |-> input, done |-> FALSE, result |-> Empty]

\* the characters of the registration strings: the two the parser looks
\* for and two others
ServiceChars == {":", "/", "1", "a"}

ParserInit ==
  /\ Quiet
  /\ call \in {Call("from_notifier_service", service) :
                 service \in Strings(ServiceChars, MaxLen)}

\* NotifierAddress::from_notifier_service(service), called
from_notifier_service_call ==
  /\ call.fn = "from_notifier_service"
  /\ ~call.done
  /\ call' = [call EXCEPT !.done = TRUE,
                          !.result = from_notifier_service(call.input)]
  /\ UNCHANGED engineVars

ParserNext == from_notifier_service_call

ParserSpec == ParserInit /\ [][ParserNext]_vars

\* the strings Status::from_str and Category::from_str are given: the
\* names of the variants and strings that are no name
StatusStrings == {"Passive", "Active", "NeedsAttention", "passive", ""}
CategoryStrings == Categories \cup {"Other", "hardware", ""}

\* the values of IconThemePath: none, the empty string, a path, no string
ThemePaths == {Absent, Str(""), Str("/usr/share/icons"), NotStr}

\* the property bags try_from is given
AllBags ==
  [Id : BOOLEAN, Category : CategoryStrings, Status : StatusStrings,
   IconPixmap : {"absent", "valid", "malformed"}, Menu : BOOLEAN,
   IconThemePath : ThemePaths]

DataInit ==
  /\ Quiet
  /\ call \in {Call("Status::from_str", s) : s \in StatusStrings}
             \cup {Call("Category::from_str", s) : s \in CategoryStrings}
             \cup {Call("StatusNotifierItem::try_from", props) : props \in AllBags}

\* Status::from_str(s), called
Status_from_str_call ==
  /\ call.fn = "Status::from_str"
  /\ ~call.done
  /\ call' = [call EXCEPT !.done = TRUE, !.result = StatusFromStr(call.input)]
  /\ UNCHANGED engineVars

\* Category::from_str(s), called
Category_from_str_call ==
  /\ call.fn = "Category::from_str"
  /\ ~call.done
  /\ call' = [call EXCEPT !.done = TRUE, !.result = CategoryFromStr(call.input)]
  /\ UNCHANGED engineVars

\* StatusNotifierItem::try_from(props), called
try_from_call ==
  /\ call.fn = "StatusNotifierItem::try_from"
  /\ ~call.done
  /\ call' = [call EXCEPT !.done = TRUE, !.result = TryFromProps(call.input)]
  /\ UNCHANGED engineVars

DataNext ==
  \/ Status_from_str_call
  \/ Category_from_str_call
  \/ try_from_call

DataSpec == DataInit /\ [][DataNext]_vars

\* the characters of the labels: the mnemonic marker and another
LabelChars == {"_", "a"}

\* the label "_File"
UnderscoreFile == <<"_", "F", "i", "l", "e">>

\* a dict with the given values under four of its keys and the others absent
Entries(label, enabled, toggle_state, menu_type) ==
  [k \in DictKeys |->
     CASE k = "label" -> label
       [] k = "enabled" -> enabled
       [] k = "toggle-state" -> toggle_state
       [] k = "type" -> menu_type
       [] OTHER -> Absent]

\* the dicts of the entries of a layout: one with a label and a flag, one
\* with nothing, one whose label is no string
LayoutDicts ==
  {Entries(Str(UnderscoreFile), Bool(FALSE), Absent, Absent),
   Entries(Absent, Absent, Absent, Absent),
   Entries(I32(0), Absent, Absent, Absent)}

\* the entries of at most n levels, each with at most one child
RECURSIVE LayoutEntries(_)
LayoutEntries(n) ==
  IF n = 0 THEN {}
  ELSE {Structure(<<I32(1), Dict(d), Array(children)>>) :
          d \in LayoutDicts,
          children \in {<< >>} \cup {<<c>> : c \in LayoutEntries(n - 1)}}

\* the layouts get_layout may return: at most MaxChildren entries of at
\* most MaxDepth levels
Layouts ==
  {[id |-> 1, submenus |-> submenus] :
     submenus \in UNION {[1..k -> LayoutEntries(MaxDepth)] : k \in 0..MaxChildren}}

\* the values under a key that is read as a string, as a boolean
StrValues(valid) == {Absent, Str(valid), I32(0)}
BoolValues == {Absent, Bool(TRUE), Bool(FALSE), Str("yes")}

\* the dicts of a single entry: every key absent, valid or of another type
EntryDicts ==
  {[k \in DictKeys |->
      CASE k = "children_display" -> children_display
        [] k = "label" -> label
        [] k = "enabled" -> enabled
        [] k = "visible" -> visible
        [] k = "icon-name" -> icon_name
        [] k = "disposition" -> disposition
        [] k = "toggle-state" -> toggle_state
        [] k = "toggle-type" -> toggle_type
        [] k = "type" -> menu_type] :
     children_display \in {Absent, Str("submenu")},
     label \in StrValues(UnderscoreFile),
     enabled \in BoolValues,
     visible \in {Absent, Bool(FALSE)},
     icon_name \in {Absent, I32(0)},
     disposition \in StrValues("warning") \cup {Str("Warning")},
     toggle_state \in BoolValues,
     toggle_type \in StrValues("radio"),
     menu_type \in StrValues("separator")}

\* the values MenuItem::try_from is given: structures with a dict of
\* EntryDicts, structures with a label of every string, structures whose
\* fields are missing or of other types, and a value that is no structure
EntryValues ==
  {Structure(<<I32(7), Dict(d), Array(<< >>)>>) : d \in EntryDicts}
    \cup {Structure(<<I32(7), Dict(Entries(Str(l), Absent, Absent, Absent)), Array(<< >>)>>) :
            l \in Strings(LabelChars, MaxLen)}
    \cup {Structure(fields) :
            fields \in {<< >>, <<I32(7)>>, <<Str("7")>>,
                        <<I32(7), Dict(Entries(Absent, Absent, Absent, Absent))>>,
                        <<I32(7), Str("dict"), Array(<< >>)>>,
                        <<I32(7), Dict(Entries(Absent, Absent, Absent, Absent)), I32(0)>>}}
    \cup {Str("layout")}

MenuInit ==
  /\ Quiet
  /\ call \in {Call("MenuItem::try_from", value) : value \in EntryValues}
             \cup {Call("TrayMenu::try_from", value) : value \in Layouts}

\* MenuItem::try_from(value), called
MenuItem_try_from_call ==
  /\ call.fn = "MenuItem::try_from"
  /\ ~call.done
  /\ call' = [call EXCEPT !.done = TRUE, !.result = MenuItem_try_from(call.input)]
  /\ UNCHANGED engineVars

\* TrayMenu::try_from(value), called
TrayMenu_try_from_call ==
  /\ call.fn = "TrayMenu::try_from"
  /\ ~call.done
  /\ call' = [call EXCEPT !.done = TRUE, !.result = TrayMenu_try_from(call.input)]
  /\ UNCHANGED engineVars

MenuNext ==
  \/ MenuItem_try_from_call
  \/ TrayMenu_try_from_call

MenuSpec == MenuInit /\ [][MenuNext]_vars

---------------------------------------------------------------------------
(* The hosts beside the watcher service and the peer-death watcher *)

\* what clients pass to UnregisterStatusNotifierItem here: an object path
HostUnregisterArgs == {PathA}

\* the item's connection is on the bus
HostInit ==
  /\ peers = [u \in UniqueNames |-> IF u \in TrackedPeers THEN "up" ELSE "new"]
  /\ changed = << >>
  /\ registered_status_notifier_items = {}
  /\ status_notifier_hosts = {}
  /\ is_status_notifier_host_registered = FALSE
  /\ channel = << >>
  /\ inserted = 0
  /\ events = 0
  /\ handle = [pc |-> "start", notifier_items |-> {}]
  /\ new_notifier = << >>
  /\ tasks = << >>
  /\ menu_tasks = << >>
  /\ fetched = NeverFetched
  /\ rx = [h \in HostIds |-> NoReceiver]
  /\ engine = Running
  /\ dispatcher = Dispatcher
  /\ call = NoCall

HostNext ==
  \/ \E u \in TrackedPeers : Disconnect(u) /\ Len(changed') <= MaxChanged
  \/ \E u \in TrackedPeers, s \in TrackedPaths :
       /\ Composite(u, s) \notin registered_status_notifier_items
       /\ register_status_notifier_item(u, s)
  \/ \E a \in HostUnregisterArgs :
       Len(channel) < MaxSent /\ unregister_status_notifier_item(a)
  \/ Len(channel) < MaxSent /\ status_notifier_removed_handle
  \/ \E h \in HostIds :
       /\ rx[h].state = "none"
       /\ create_notifier_host_build(h)
       /\ Len(changed') <= MaxChanged
  \/ \E h \in HostIds : create_notifier_host_register(h)
  \/ \E h \in HostIds : recv(h)
  \/ \E h \in HostIds : destroy(h) /\ Len(changed') <= MaxChanged

HostSpec == HostInit /\ [][HostNext]_vars

---------------------------------------------------------------------------
(* One host that falls behind the messages about two items *)

\* the host of the specifications that have a single host
StartHosts == {<<"1">>}

\* the start-up succeeded, or it failed because another process owns the
\* watcher's name
LagInit ==
  /\ peers = [u \in UniqueNames |-> IF u \in TrackedPeers THEN "up" ELSE "new"]
  /\ changed = << >>
  /\ registered_status_notifier_items = {}
  /\ status_notifier_hosts = {}
  /\ is_status_notifier_host_registered = FALSE
  /\ channel = << >>
  /\ inserted = 0
  /\ events = 0
  /\ handle = [pc |-> "start", notifier_items |-> {}]
  /\ new_notifier = << >>
  /\ tasks = << >>
  /\ menu_tasks = << >>
  /\ fetched = NeverFetched
  /\ rx = [h \in HostIds |-> NoReceiver]
  /\ engine \in {Running,
                 [name |-> "other", start |-> "panicked", service |-> "none",
                  removed |-> "none", watcher |-> "held"]}
  /\ dispatcher = Dispatcher
  /\ call = NoCall

LagNext ==
  \/ \E u \in TrackedPeers, s \in Paths :
       /\ Composite(u, s) \notin registered_status_notifier_items
       /\ register_status_notifier_item(u, s)
  \/ \E a \in Paths :
       Len(channel) < MaxSent /\ unregister_status_notifier_item(a)
  \/ \E h \in StartHosts :
       /\ rx[h].state = "none"
       /\ create_notifier_host_build(h)
       /\ Len(changed') <= MaxChanged
  \/ \E h \in StartHosts : create_notifier_host_register(h)
  \/ \E h \in StartHosts : recv(h)
  \/ engine.start = "panicked" /\ DropWatcher

LagSpec == LagInit /\ [][LagNext]_vars

---------------------------------------------------------------------------
(* The start-up beside a host, the watcher service and the tracker *)

\* the state when StatusNotifierWatcher::new has returned: the two tasks
\* are spawned and the caller holds the watcher; the watcher's name is free
\* or another process owns it
StartInit ==
  /\ peers = [u \in UniqueNames |-> IF u \in TrackedPeers THEN "up" ELSE "new"]
  /\ changed = << >>
  /\ registered_status_notifier_items = {}
  /\ status_notifier_hosts = {}
  /\ is_status_notifier_host_registered = FALSE
  /\ channel = << >>
  /\ inserted = 0
  /\ events = 0
  /\ handle = [pc |-> "start", notifier_items |-> {}]
  /\ new_notifier = << >>
  /\ tasks = << >>
  /\ menu_tasks = << >>
  /\ fetched = NeverFetched
  /\ rx = [h \in HostIds |-> NoReceiver]
  /\ \E name \in {"free", "other"} :
       engine = [name |-> name, start |-> "spawned", service |-> "none",
                 removed |-> "none", watcher |-> "held"]
  /\ dispatcher = Dispatcher
  /\ call = NoCall

StartNext ==
  \/ start_notifier_watcher
  \/ status_notifier_removed_handle_subscribe
  \/ DropWatcher
  \/ \E h \in StartHosts :
       create_notifier_host_build(h) /\ Len(changed') <= MaxChanged
  \/ \E h \in StartHosts : create_notifier_host_register(h)
  \/ \E h \in StartHosts : recv(h)
  \/ \E h \in StartHosts : destroy(h) /\ Len(changed') <= MaxChanged
  \/ \E u \in TrackedPeers, s \in Paths :
       inserted = 0 /\ register_status_notifier_item(u, s)
  \/ \E a \in HostUnregisterArgs : unregister_status_notifier_item(a)
  \/ status_notifier_removed_handle
  \/ status_notifier_handle_start
  \/ status_notifier_handle_initial
  \/ status_notifier_handle_subscribe
  \/ status_notifier_handle_registered
  \/ \E t \in 1..Len(tasks) : fetch_properties_and_update_get_all(t)
  \/ \E t \in 1..Len(tasks) : watch_menu(t)
  \/ \E t \in 1..Len(tasks) : fetch_properties_and_update_send(t)
  \/ \E t \in 1..Len(tasks) : watch_notifier_props_subscribe(t)
  \/ \E m \in 1..Len(menu_tasks) : menu_task_subscribe(m)

StartSpec == StartInit /\ [][StartNext]_vars

---------------------------------------------------------------------------
(* Properties of the watcher service and the peer-death watcher *)

\* the registry entries that connection u registered
OwnedBy(u) == {e \in registered_status_notifier_items : SenderOf(e) = u}

\* how many Remove messages were broadcast
Removes == Cardinality({i \in 1..Len(channel) : channel[i].type = "Remove"})

\* the items that were registered and are lost: no longer in the registry, or
\* in it with an owner that left the bus
Lost ==
  inserted - Cardinality({e \in registered_status_notifier_items :
                            Connected(SenderOf(e))})

\* C1: once every NameOwnerChanged signal has been handled, the number of
\* Remove messages broadcast equals the number of lost items (exactly one
\* Remove per item whose owner disappeared or that was unregistered), also
\* when one owner had registered several items.
C1_OneRemovePerLostItem == changed = << >> => Removes = Lost

\* C2: when the peer-death watcher handles the disappearance of the unique
\* name u, the registry afterwards is the registry before without the entries
\* of u: all of them are removed and no entry of another owner is.
C2_OwnerEntriesRemoved ==
  [][(/\ changed # << >>
      /\ changed' = Tail(changed)
      /\ Head(changed).name = Head(changed).old
      /\ Head(changed).new = Empty)
     => registered_status_notifier_items' =
          registered_status_notifier_items \ OwnedBy(Head(changed).old)]_vars

---------------------------------------------------------------------------
(* Properties of the tracker *)

\* the Updates a step broadcasts
NewUpdates ==
  {i \in (Len(channel) + 1)..Len(channel') : channel'[i].type = "Update"}

\* C3: every Update broadcast for an address, by a property task or by a
\* menu-signal task, follows a GetAll for that address whose reply converted
\* to a StatusNotifierItem.
C3_UpdateAfterFetch ==
  [][\A i \in NewUpdates : channel'[i].address \in Fetched]_vars

\* the one property task has broadcast the Update of its first fetch and
\* nothing since, and a second Update, of its menu-signal task, was broadcast
C3_Witness ==
  /\ Len(tasks) = 1
  /\ tasks[1].sent
  /\ ~tasks[1].subscribed
  /\ Cardinality({i \in 1..Len(channel) : channel[i].type = "Update"}) = 2

\* menu-signal task m broadcasts an Update in this step
MenuTaskSends(m) ==
  /\ menu_tasks[m].pc = "layout"
  /\ menu_tasks'[m].pc = "wait"
  /\ NewUpdates # {}

\* C5: no menu-signal task broadcasts an Update while the property task that
\* spawned it in its first fetch has the initial Update still to send.
C5_InitialUpdateFirst ==
  [][\A m \in 1..Len(menu_tasks) :
       MenuTaskSends(m) =>
         ~(/\ tasks[menu_tasks[m].parent].pc = "send"
           /\ ~tasks[menu_tasks[m].parent].subscribed)]_vars

\* whether a property task exists for a registry entry
Tracked(service) ==
  LET address == from_notifier_service(service)
  IN \E t \in 1..Len(tasks) :
       /\ tasks[t].destination = address.destination
       /\ tasks[t].path = address.path

\* C6: once the tracker listens and has handled every signal it received,
\* every registry entry that parses has a property task, whenever it was
\* registered.
C6_RegisteredItemsTracked ==
  (handle.pc = "listen" /\ new_notifier = << >>)
    => \A service \in registered_status_notifier_items :
         from_notifier_service(service).ok => Tracked(service)

\* C7: a property task whose item's owner left the bus has ended or has a
\* step to take, and so has a menu-signal task.
C7_TasksEndAfterOwnerGone ==
  /\ \A t \in 1..Len(tasks) :
       (tasks[t].destination \in UniqueNames
          /\ peers[tasks[t].destination] = "gone")
         => (tasks[t].pc \in Ended \/ ENABLED TaskStep(t))
  /\ \A m \in 1..Len(menu_tasks) :
       (menu_tasks[m].address \in UniqueNames
          /\ peers[menu_tasks[m].address] = "gone")
         => (menu_tasks[m].pc \in Ended \/ ENABLED MenuTaskStep(m))

\* C8: a GetLayout that fails because the item cannot be reached, in a fetch
\* whose bag converted to an item with a menu, leaves the property task about
\* to send its Update with menu = None.
C8_LayoutFailureSendsUpdate ==
  [][\A t \in 1..Len(tasks) :
       (/\ tasks[t].pc = "layout"
        /\ ~Reachable(tasks[t].destination)
        /\ tasks'[t].pc # "layout")
         => (tasks'[t].pc = "send" /\ tasks'[t].menu = "None")]_vars

\* C9: a fetch whose GetAll was answered and whose bag did not convert to an
\* item broadcasts nothing and leaves the property task subscribing to, or
\* waiting for, the item's signals.
C9_UnconvertibleBagSkipped ==
  [][\A t \in 1..Len(tasks) :
       (/\ tasks[t].pc = "fetch"
        /\ Reachable(tasks[t].destination)
        /\ tasks'[t].pc \notin {"fetch", "layout", "send"})
         => (tasks'[t].pc \in {"subscribe", "wait"} /\ channel' = channel)]_vars

\* C10: the step in which a property task ends by an error or a panic
\* changes nothing of the watcher service, the registration listener, the
\* peer-death watcher's stream, the other property tasks or the menu-signal
\* tasks, and the listener is never stopped.
C10_FailureIsConfined ==
  [][/\ \A t \in 1..Len(tasks) :
          (tasks[t].pc \notin Ended /\ tasks'[t].pc \in Ended)
            => /\ handle' = handle
               /\ new_notifier' = new_notifier
               /\ changed' = changed
               /\ registered_status_notifier_items' =
                    registered_status_notifier_items
               /\ \A o \in (1..Len(tasks)) \ {t} : tasks'[o] = tasks[o]
               /\ \A m \in 1..Len(menu_tasks) : menu_tasks'[m] = menu_tasks[m]
     /\ handle'.pc \in {"start", "initial", "listen"}]_vars

\* the task of one item has panicked and the task of another item, spawned
\* later, is about to broadcast its Update
C10_Witness ==
  \E t \in 1..Len(tasks), o \in 1..Len(tasks) :
    /\ t < o
    /\ tasks[t].pc = "panicked"
    /\ tasks[o].destination # tasks[t].destination
    /\ tasks[o].pc = "send"
    /\ handle.pc = "listen"

---------------------------------------------------------------------------
(* Properties of the hosts *)

\* the hosts that have a receiver from which recv never returned a lag error
InStep == {h \in HostIds : rx[h].state = "alive" /\ ~rx[h].lagged}

\* C4: a host that subscribed and never lagged has received, once each and in
\* the order of sending, the messages sent since its subscription up to the
\* one it reads next, and recv can hand it the next one when there is one; two
\* such hosts received the same message at every position both have read.
C4_HostsReceiveAllInOrder ==
  /\ \A h \in InStep :
       /\ rx[h].received = SubSeq(channel, rx[h].start + 1, rx[h].next)
       /\ rx[h].next < Len(channel) => ENABLED recv(h)
  /\ \A g \in InStep, h \in InStep :
       \A i \in 1..Len(channel) :
         (/\ rx[g].start < i /\ i <= rx[g].next
          /\ rx[h].start < i /\ i <= rx[h].next)
           => rx[g].received[i - rx[g].start] = rx[h].received[i - rx[h].start]

\* two hosts that subscribed at different times have both received the
\* Remove of the peer-death watcher after Removes of unregistrations, and
\* neither lagged although one was more than Capacity messages behind
C4_Witness ==
  \E g \in InStep, h \in InStep :
    /\ rx[g].start < rx[h].start
    /\ Len(rx[h].received) >= 2
    /\ Len(rx[g].received) > Capacity
    /\ rx[g].next = Len(channel)
    /\ rx[h].next = Len(channel)
    /\ rx[h].received[1] # rx[h].received[Len(rx[h].received)]

---------------------------------------------------------------------------
(* Properties of the start-up *)

\* C11: when the start-up cannot acquire the watcher's name the failure
\* reaches the caller, who gets no usable watcher: no host has been created
\* from the watcher of a failed start-up
C11_StartFailureReachesCaller ==
  engine.start = "panicked" => \A h \in HostIds : rx[h].state # "alive"

---------------------------------------------------------------------------
(* Properties of the broadcast channel *)

\* a step in which the recv of host h returned
Returned(h) ==
  /\ rx[h].state = "alive"
  /\ rx'[h].state = "alive"
  /\ rx'[h] # rx[h]
  /\ channel' = channel

\* the rule of a channel that keeps n messages: a recv of a host that is
\* more than n messages behind returns a lag error and the host then stands
\* at the oldest of the n newest messages, so that exactly the messages
\* older than those are lost to it; any other recv of a host that has
\* something to read returns the next message
LagRule(n) ==
  \A h \in HostIds :
    Returned(h) /\ rx[h].next < Len(channel) =>
      IF Len(channel) - rx[h].next > n
      THEN /\ rx'[h].lagged
           /\ rx'[h].next = Len(channel) - n
           /\ rx'[h].received = rx[h].received
      ELSE /\ rx'[h].lagged = rx[h].lagged
           /\ rx'[h].next = rx[h].next + 1
           /\ rx'[h].received = Append(rx[h].received, channel[rx[h].next + 1])

\* what a host has received since its last lag error, or since it
\* subscribed, is what was sent from there on, in the order of sending
InOrderSinceLag(h) ==
  LET n == rx[h].next - rx[h].resume
      r == rx[h].received
  IN /\ Len(r) >= n
     /\ \A i \in 1..n : r[Len(r) - n + i] = channel[rx[h].resume + i]

\* C12, amended: the channel keeps 8 messages (the 5 of channel(5) rounded
\* up to a power of two); when 8 + K messages are unread by a host its next
\* recv returns a lag error, exactly the K oldest are lost to it, and the
\* recvs that follow return the 8 newest in the order of sending
C12_LagBeyondBuffer ==
  /\ [](\A h \in HostIds : rx[h].state = "alive" => InOrderSinceLag(h))
  /\ [][LagRule(Buffer)]_vars

\* C12, as stated: the same with the 5 of channel(5)
C12_LagBeyondCapacity == [][LagRule(Capacity)]_vars

\* a host that read nothing while 8 + 1 messages were sent, got the lag
\* error, lost the oldest and has then received the other 8, which are not
\* all the same message
C12_Witness ==
  \E h \in HostIds :
    /\ rx[h].state = "alive"
    /\ rx[h].lagged
    /\ rx[h].resume = rx[h].start + 1
    /\ rx[h].next = rx[h].resume + Buffer
    /\ Len(rx[h].received) = Buffer
    /\ \E i, j \in 1..Buffer : rx[h].received[i] # rx[h].received[j]

\* a step in which the recv of host h returned an error: nothing was received
ReturnedError(h) == Returned(h) /\ rx'[h].received = rx[h].received

\* C13, amended: recv returns an error only when the channel has terminated
\* (nothing is left to read and every sender is gone) or when the host has
\* fallen behind by more than the channel keeps; in every other state in
\* which it returns, it returns the next message
C13_ErrorOnTerminationOrLag ==
  [][\A h \in HostIds :
       /\ ReturnedError(h) =>
            \/ rx[h].next = Len(channel) /\ SendersGone
            \/ Len(channel) - rx[h].next > Buffer
       /\ Returned(h) /\ ~ReturnedError(h) =>
            /\ rx[h].next < Len(channel)
            /\ rx'[h].received = Append(rx[h].received, channel[rx[h].next + 1])
    ]_vars

\* C13, as stated: recv returns an error only when the channel has
\* terminated, that is when every sender is gone
C13_ErrorOnlyWhenTerminated ==
  [][\A h \in HostIds : ReturnedError(h) => SendersGone]_vars

\* a host whose recv returned the lag error while the senders live
C13_Witness ==
  \E h \in HostIds :
    rx[h].state = "alive" /\ rx[h].lagged /\ ~rx[h].closed /\ ~SendersGone

\* C14: a send while no receiver exists is a no-op that is not fatal: a
\* tracker task that stands at its send goes on after it
C14_SendWithoutReceiverIsNoOp ==
  [][\A t \in 1..Len(tasks) :
       tasks[t].pc = "send" => tasks'[t].pc \notin Ended]_vars

---------------------------------------------------------------------------
(* Properties of the hosts' creation and registration *)

\* "org.freedesktop.StatusNotifierHost-<pid>-<unique_id>"
HostName(unique_id) ==
  <<"o", "r", "g", ".", "f", "r", "e", "e", "d", "e", "s", "k", "t", "o", "p",
    ".", "S", "t", "a", "t", "u", "s", "N", "o", "t", "i", "f", "i", "e", "r",
    "H", "o", "s", "t">> \o <<"-">> \o Pid \o <<"-">> \o unique_id

\* C15: create_notifier_host first acquires exactly the name
\* org.freedesktop.StatusNotifierHost-<pid>-<unique_id>, then registers the
\* host under that name with whoever serves the watcher's name, and only
\* then subscribes; the host exists only if both succeeded, and a failure
\* leaves no subscription behind
C15_NameThenRegisterThenSubscribe ==
  [][\A h \in HostIds :
       /\ rx[h].state = "none" /\ rx'[h].state = "named" =>
            /\ rx'[h].next = 0 /\ rx'[h].received = << >>
            /\ engine.removed = "listening" =>
                 /\ Len(changed') = Len(changed) + 2
                 /\ changed'[Len(changed')].name = HostName(h)
                 /\ changed'[Len(changed')].old = Empty
       /\ rx[h].state # "alive" /\ rx'[h].state = "alive" =>
            /\ rx[h].state = "named"
            /\ engine.name # "free"
            /\ engine.name = "ours" =>
                 /\ Serving
                 /\ status_notifier_hosts' = status_notifier_hosts \cup {HostName(h)}
                 /\ is_status_notifier_host_registered'
            /\ rx'[h].start = Len(channel) /\ rx'[h].next = Len(channel)
       /\ rx[h].state = "named" /\ rx'[h].state \notin {"named", "alive"} =>
            /\ rx'[h] = NoReceiver
            /\ status_notifier_hosts' = status_notifier_hosts
            /\ ~(engine.name = "other" \/ (engine.name = "ours" /\ Serving))
       /\ rx[h].state = "none" /\ rx'[h].state # "none" =>
            rx'[h].state = "named"
    ]_vars

\* a host that exists after it acquired its name, of which the bus told
\* the peer-death watcher, and after the watcher service registered it
C15_Witness ==
  \E h \in HostIds :
    /\ rx[h].state = "alive"
    /\ HostName(h) \in status_notifier_hosts
    /\ \E i \in 1..Len(changed) :
         changed[i].name = HostName(h) /\ changed[i].old = Empty

\* C16: status_notifier_hosts holds the names of the hosts that are
\* registered now: once the signals of the bus are handled, a name in the
\* set is the name of a host that exists, not of one that was destroyed
C16_HostSetIsCurrent ==
  changed = << >> =>
    \A h \in HostIds :
      wellknown_name(h) \in status_notifier_hosts => rx[h].state = "alive"

---------------------------------------------------------------------------
(* Properties of the watcher service's methods *)

\* C17: RegisterStatusNotifierItem(service), called by the connection with
\* unique name u, puts the string u followed by service into the registry,
\* emits StatusNotifierItemRegistered with that string, and leaves the host
\* set and the host flag as they were
C17_RegisterItem ==
  [][events' = events + 1 =>
       \E u \in UniqueNames, service \in Paths :
         /\ Connected(u)
         /\ registered_status_notifier_items' =
              registered_status_notifier_items \cup {u \o service}
         /\ new_notifier' = IF handle.pc = "listen"
                            THEN new_notifier \o <<u \o service>>
                            ELSE new_notifier
         /\ status_notifier_hosts' = status_notifier_hosts
         /\ is_status_notifier_host_registered' =
              is_status_notifier_host_registered
    ]_vars

\* an item registered while a host was registered: its string is in the
\* registry and in the signal the tracker has yet to read
C17_Witness ==
  /\ status_notifier_hosts # {}
  /\ is_status_notifier_host_registered
  /\ \E service \in Paths :
       /\ U9 \o service \in registered_status_notifier_items
       /\ new_notifier = <<U9 \o service>>

\* a step of the watcher service that takes entries out of the registry or
\* broadcasts a Remove
Removing ==
  \/ /\ registered_status_notifier_items' # registered_status_notifier_items
     /\ registered_status_notifier_items' \subseteq registered_status_notifier_items
  \/ /\ Len(channel') = Len(channel) + 1
     /\ channel'[Len(channel')].type = "Remove"

\* str::contains: the characters of service stand somewhere in entry, one
\* after the other
HasSubstring(entry, service) ==
  \E i \in 0..(Len(entry) - Len(service)) :
    \A j \in 1..Len(service) : entry[i + j] = service[j]

---------------------------------------------------------------------------
(* Properties of the messages *)

\* the items whose task has broadcast an Update
ItemsWithUpdate ==
  {<<tasks[t].destination, tasks[t].path>> :
     t \in {n \in 1..Len(tasks) : tasks[n].sent}}

\* the addresses the Updates in the channel carry
UpdateAddresses ==
  {channel[i].address :
     i \in {n \in 1..Len(channel) : channel[n].type = "Update"}}

\* C19: the address of a message identifies the item: distinct registered
\* items, two object paths of one connection among them, never produce
\* Updates with the same address
C19_AddressIdentifiesItem ==
  Cardinality(UpdateAddresses) >= Cardinality(ItemsWithUpdate)

---------------------------------------------------------------------------
(* Properties of the UI command dispatcher *)

\* the commands the dispatcher has taken and is done with
Handled ==
  IF dispatcher.pc = "event"
  THEN SubSeq(dispatcher.taken, 1, Len(dispatcher.taken) - 1)
  ELSE dispatcher.taken

\* C20: for every MenuItemClicked taken from the queue the dispatcher makes
\* exactly one Event call, on (notifier_address, menu_path) with
\* (submenu_id, "clicked", I32(32), timestamp), one command at a time in
\* the order of the queue
C20_OneEventPerCommand ==
  /\ Len(dispatcher.calls) = Len(Handled)
  /\ \A i \in 1..Len(Handled) :
       /\ dispatcher.calls[i].destination = Handled[i].notifier_address
       /\ dispatcher.calls[i].path = Handled[i].menu_path
       /\ dispatcher.calls[i].id = Handled[i].submenu_id
       /\ dispatcher.calls[i].event_id = "clicked"
       /\ dispatcher.calls[i].data = 32
       /\ dispatcher.calls[i].timestamp \in 0..999999

\* C21: a command whose handling fails does not stop the dispatcher: after
\* the handling of a command the task stands at the queue again, so that
\* the commands sent later are dispatched
C21_FailureDoesNotStopDispatcher ==
  [][dispatcher.pc = "event" => dispatcher'.pc \in {"event", "recv"}]_vars

---------------------------------------------------------------------------
(* Properties of the address parser *)

\* the parser has returned
Parsed == call.fn = "from_notifier_service" /\ call.done

\* the rule of the registration strings: with a slash, the string is split
\* at its first slash and the path keeps the slash; else with a colon in
\* front, the string is the destination and the path is the default; else
\* the string is rejected
ReferenceAddress(s) ==
  IF \E k \in 1..Len(s) : s[k] = "/"
  THEN LET k == CHOOSE i \in 1..Len(s) :
                  s[i] = "/" /\ \A j \in 1..(i - 1) : s[j] # "/"
       IN [ok |-> TRUE,
           destination |-> [i \in 1..(k - 1) |-> s[i]],
           path |-> [i \in 1..(Len(s) - k + 1) |-> s[k + i - 1]]]
  ELSE IF Len(s) > 0 /\ s[1] = ":"
  THEN [ok |-> TRUE, destination |-> s,
        path |-> <<"/", "S", "t", "a", "t", "u", "s", "N", "o", "t", "i", "f",
                   "i", "e", "r", "I", "t", "e", "m">>]
  ELSE [ok |-> FALSE, destination |-> << >>, path |-> << >>]

\* C22: from_notifier_service(s) is what the rule gives for s, for every
\* registration string s
C22_ParserFollowsRule == Parsed => call.result = ReferenceAddress(call.input)

\* C23: the path of every registration string the parser accepts starts
\* with a slash
C23_PathStartsWithSlash ==
  Parsed /\ call.result.ok =>
    Len(call.result.path) >= 1 /\ call.result.path[1] = "/"

\* a string with a slash in it, parsed and accepted
C23_Witness ==
  /\ Parsed /\ call.result.ok
  /\ \E k \in 2..Len(call.input) : call.input[k] = "/"
  /\ call.result.path # <<"/">>

\* C24: for a unique name u, without a slash, and an object path p, with a
\* slash in front, the string u followed by p parses to destination u and
\* path p
C24_ParseRecoversSenderAndPath ==
  Parsed =>
    \A k \in 1..Len(call.input) :
      LET u == SubSeq(call.input, 1, k)
          p == SubSeq(call.input, k + 1, Len(call.input))
      IN (/\ u[1] = ":"
          /\ \A i \in 1..Len(u) : u[i] # "/"
          /\ Len(p) >= 1 /\ p[1] = "/")
         => /\ call.result.ok
            /\ call.result.destination = u
            /\ call.result.path = p

\* the string of a unique name and a path with two slashes, parsed
C24_Witness ==
  /\ Parsed
  /\ call.input = <<":", "1", "/", "a">> \/ call.input = <<":", "/", "a", "/">>
  /\ call.result.ok

---------------------------------------------------------------------------
(* Properties of the data model's conversions *)

\* C25: Status and Category are parsed to their literal values: "Passive"
\* gives Status::Passive, "Active" gives Status::Active, each of the four
\* names of Category gives the variant of that name, any other string an
\* error
C25_ParsedToLiteralValues ==
  /\ call.fn = "Status::from_str" /\ call.done =>
       IF call.input \in {"Passive", "Active"}
       THEN call.result.ok /\ call.result.status = call.input
       ELSE ~call.result.ok
  /\ call.fn = "Category::from_str" /\ call.done =>
       IF call.input \in {"ApplicationStatus", "Communications",
                          "SystemServices", "Hardware"}
       THEN call.result.ok /\ call.result.category = call.input
       ELSE ~call.result.ok

\* C26: a property bag whose IconThemePath is the empty string converts to
\* an item with icon_theme_path = None, one whose IconThemePath is another
\* string to an item with Some of that string
C26_EmptyThemePathIsNone ==
  call.fn = "StatusNotifierItem::try_from" /\ call.done
    /\ call.result.tag = "Ok" /\ call.input.IconThemePath.type = "s" =>
      IF call.input.IconThemePath.value = ""
      THEN ~call.result.item.icon_theme_path.some
      ELSE /\ call.result.item.icon_theme_path.some
           /\ call.result.item.icon_theme_path.value =
                call.input.IconThemePath.value

---------------------------------------------------------------------------
(* Properties of the menu's decoding *)

\* C27: decoding a layout in which an entry has a property of another type
\* than the code reads (a label that is no string, an enabled that is no
\* boolean) still gives a TrayMenu, with every entry of the layout in it
C27_MalformedChildKeepsTheTree ==
  call.fn = "TrayMenu::try_from" /\ call.done =>
    /\ call.result.tag = "Ok"
    /\ Len(call.result.menu.submenus) = Len(call.input.submenus)

\* the items that were decoded by the call that was made
Decoded ==
  IF ~call.done \/ call.result.tag # "Ok" THEN << >>
  ELSE IF call.fn = "TrayMenu::try_from" THEN call.result.menu.submenus
  ELSE IF call.fn = "MenuItem::try_from" THEN <<call.result.item>>
  ELSE << >>

\* the values they were decoded from
Sources ==
  IF call.fn = "TrayMenu::try_from" THEN call.input.submenus ELSE <<call.input>>

\* the labels of the items and of the items below them
RECURSIVE ItemLabels(_)
ItemLabels(items) ==
  UNION {{items[i].label} \cup ItemLabels(items[i].submenu) : i \in 1..Len(items)}

\* the label of a value's dict, where the value has one
SourceLabel(value) ==
  IF Field(value.value, 2).type = "a{sv}" THEN Field(value.value, 2).value["label"]
  ELSE Absent

\* the children of a value, where the value has some
SourceChildren(value) ==
  IF Field(value.value, 3).type = "av" THEN Field(value.value, 3).value ELSE << >>

\* at every depth "_File" has become "File" and no label has become ""
RECURSIVE LabelsStripped(_, _)
LabelsStripped(values, items) ==
  /\ Len(items) = Len(values)
  /\ \A i \in 1..Len(items) :
       /\ SourceLabel(values[i]) = Str(UnderscoreFile) =>
            items[i].label = <<"F", "i", "l", "e">>
       /\ SourceLabel(values[i]) = Absent => items[i].label = << >>
       /\ LabelsStripped(SourceChildren(values[i]), items[i].submenu)

\* C28: in every decoded menu, at every depth, no label holds an
\* underscore: "_File" is decoded as "File", a missing label as ""
C28_LabelsWithoutUnderscore ==
  Decoded # << >> =>
    /\ \A label \in ItemLabels(Decoded) : \A i \in 1..Len(label) : label[i] # "_"
    /\ LabelsStripped(Sources, Decoded)

\* a menu was decoded whose second level has an entry labelled "_File"
C28_Witness ==
  /\ call.fn = "TrayMenu::try_from"
  /\ Decoded # << >>
  /\ \E i \in 1..Len(Decoded) :
       /\ Decoded[i].submenu # << >>
       /\ SourceLabel(SourceChildren(Sources[i])[1]) = Str(UnderscoreFile)
       /\ Decoded[i].submenu[1].label = <<"F", "i", "l", "e">>

---------------------------------------------------------------------------
(* Properties of the peer-death watcher's signals *)

\* C29: the peer-death watcher unregisters an item only when the owning
\* connection has left the bus: on the signal of a peer that is still
\* connected and has released a well-known name it removes no registered
\* item and sends no Remove
C29_ReleasedNameRemovesNothing ==
  [][(/\ changed # << >>
      /\ changed' = Tail(changed)
      /\ Head(changed).old \in UniqueNames
      /\ Head(changed).new = Empty
      /\ Head(changed).name # Head(changed).old
      /\ Connected(Head(changed).old))
       => /\ registered_status_notifier_items' = registered_status_notifier_items
          /\ channel' = channel]_vars

---------------------------------------------------------------------------
(* Properties of the menu-signal tasks *)

\* C30: every Update a menu-signal task broadcasts carries the item of the
\* most recent fetch of the address's properties that converted
C30_MenuUpdateCarriesLatestItem ==
  [][\A m \in 1..Len(menu_tasks) :
       (/\ menu_tasks[m].pc = "layout"
        /\ menu_tasks'[m].pc = "wait"
        /\ Len(channel') = Len(channel) + 1)
         => channel'[Len(channel')].item = fetched[menu_tasks[m].address]]_vars

---------------------------------------------------------------------------
(* Properties of the tracker's registrations *)

\* the string the tracker takes in this step, from the items it read or
\* from the stream of StatusNotifierItemRegistered, if it takes one
Taken ==
  IF handle.pc = "initial" /\ handle'.notifier_items # handle.notifier_items
  THEN handle.notifier_items \ handle'.notifier_items
  ELSE IF handle.pc = "listen" /\ new_notifier # << >>
          /\ new_notifier' = Tail(new_notifier)
  THEN {Head(new_notifier)}
  ELSE {}

\* C31: a registration string that does not parse, read from the registry
\* or received in a signal, starts no task and broadcasts nothing, and the
\* tracker goes on with the remaining and the later registrations
C31_UnparsableIsSkipped ==
  /\ [](handle.pc # "dead")
  /\ [][\A service \in Taken :
          ~from_notifier_service(service).ok =>
            /\ tasks' = tasks
            /\ menu_tasks' = menu_tasks
            /\ channel' = channel
            /\ handle'.pc = handle.pc]_vars

\* the tracker has read a registry with strings that do not parse and has
\* taken another from the stream; the item beside them has its task and
\* its Update
C31_Witness ==
  /\ Unparsable \subseteq registered_status_notifier_items
  /\ handle.pc = "listen"
  /\ events = 2
  /\ new_notifier = << >>
  /\ Len(tasks) = 2
  /\ \A t \in 1..Len(tasks) : tasks[t].sent

---------------------------------------------------------------------------
(* Properties of the peer-death watcher's loop *)

\* the peer-death watcher takes a signal of a lost owner in this step
TakesLostOwner ==
  /\ engine.removed = "listening"
  /\ changed # << >>
  /\ changed' = Tail(changed)
  /\ Head(changed).old # Empty
  /\ Head(changed).new = Empty

\* C32: a call of UnregisterStatusNotifierItem that failed does not end the
\* peer-death watcher: it stays on its stream, and every signal of a lost
\* owner it takes later is answered with the call again, which removes an
\* entry of the owner wherever the service answers
C32_WatcherKeepsListening ==
  [][/\ engine.removed = "listening" => engine'.removed = "listening"
     /\ TakesLostOwner /\ Serving /\ Matching(Head(changed).old) # {} =>
          \E notifier \in Matching(Head(changed).old) :
            registered_status_notifier_items' =
              registered_status_notifier_items \ {notifier}]_vars

\* two owners were lost after the application dropped the watcher: both
\* calls failed in the service, which had no receiver for the Remove, and
\* both entries are gone
C32_Witness ==
  /\ engine.watcher = "dropped"
  /\ engine.removed = "listening"
  /\ \A u \in UniqueNames : peers[u] = "gone"
  /\ inserted = 2
  /\ registered_status_notifier_items = {}
  /\ changed = << >>
  /\ channel = << >>

---------------------------------------------------------------------------
(* Properties of the tasks of an item *)

\* C33: an item has at most one property task that has not ended:
\* registering the same composite again starts no second one
C33_OneTaskPerItem ==
  \A t \in 1..Len(tasks) : \A o \in 1..Len(tasks) :
    (/\ tasks[t].pc \notin Ended /\ tasks[o].pc \notin Ended
     /\ tasks[t].destination = tasks[o].destination
     /\ tasks[t].path = tasks[o].path)
      => t = o

\* C34: an item has at most one menu-signal task that has not ended: a
\* fetch of the properties leaves no earlier one beside the one it spawns
C34_OneMenuTaskPerItem ==
  \A m \in 1..Len(menu_tasks) : \A o \in 1..Len(menu_tasks) :
    (/\ menu_tasks[m].pc \notin Ended /\ menu_tasks[o].pc \notin Ended
     /\ menu_tasks[m].address = menu_tasks[o].address)
      => m = o

\* C35: no change of an item is lost when its task starts: a property task
\* that waits for the next signal with none pending has fetched the item's
\* properties since the item last changed
C35_NoChangeLostAtStart ==
  \A t \in 1..Len(tasks) :
    (tasks[t].pc = "wait" /\ tasks[t].pending = 0) => ~tasks[t].stale

---------------------------------------------------------------------------
(* Properties of a host that is created late *)

\* C36: a host gets an Update for every item that is registered and
\* tracked when it is created, without a new signal of the item: once the
\* item's property task waits for signals, an Update of the item is among
\* the messages sent since the host subscribed
C36_LateHostGetsItems ==
  \A h \in HostIds :
    rx[h].state = "alive" =>
      \A t \in 1..Len(tasks) :
        (/\ tasks[t].pc = "wait" /\ tasks[t].sent
         /\ \E service \in registered_status_notifier_items :
              /\ from_notifier_service(service).destination = tasks[t].destination
              /\ from_notifier_service(service).path = tasks[t].path)
          => \E i \in (rx[h].start + 1)..Len(channel) :
               /\ channel[i].type = "Update"
               /\ channel[i].address = tasks[t].destination

---------------------------------------------------------------------------
(* Properties of the Remove messages *)

\* C37: every Remove carries the address the Updates of the removed item
\* carry, the destination of the removed registry entry, whatever was
\* passed to UnregisterStatusNotifierItem
C37_RemoveCarriesItemAddress ==
  [][\A i \in (Len(channel) + 1)..Len(channel') :
       channel'[i].type = "Remove" =>
         \E notifier \in
              registered_status_notifier_items \ registered_status_notifier_items' :
           channel'[i].address = from_notifier_service(notifier).destination]_vars

---------------------------------------------------------------------------
(* Properties of the addresses of the tasks *)

\* C38: the address the tracker derives from a registration has the
\* registering connection's unique name as its destination, whatever the
\* connection passed as the service
C38_DestinationIsSender ==
  \A t \in 1..Len(tasks) : tasks[t].destination \in TrackedPeers

---------------------------------------------------------------------------
(* Properties of the hosts' registry *)

SourceToggleState(value) ==
  IF value.type = "r" /\ Field(value.value, 2).type = "a{sv}"
  THEN Field(value.value, 2).value["toggle-state"]
  ELSE Absent

\* C40: a decoded menu entry is On when its toggle-state is present and
\* on, Off when it is present and off, and Indeterminate when it is absent
\* or of another type
C40_EachToggleStateResults ==
  call.fn = "MenuItem::try_from" /\ call.done /\ call.result.tag = "Ok" =>
    call.result.item.toggle_state =
      IF SourceToggleState(call.input) = Bool(TRUE) THEN "On"
      ELSE IF SourceToggleState(call.input) = Bool(FALSE) THEN "Off"
      ELSE "Indeterminate"

===========================================================================
